---- MODULE Spec2Model ----
(***************************************************************************)
(* A model of bot.py: the player cache (PlayerCache), the name lookup      *)
(* (MyClient.search_player_by_name), the market aggregation loops of the   *)
(* /buyorders and /sales commands and their seller-name resolution.        *)
(*                                                                         *)
(* Python values are encoded as follows.                                   *)
(*   str          a sequence of one-character strings                      *)
(*   dict key     absent keys are the sentinels NoId / NoName / NullName   *)
(*   Optional[x]  <<>> for None, <<x>> for a value                         *)
(***************************************************************************)
EXTENDS Integers, Sequences, FiniteSets, TLC

\* ------------------------------------------------------------------ bounds
\* Record ids are 1..NIds.
NIds == 2

\* The owner ids one batch name resolution is given are among 1..NOwners.
NOwners == 6

\* The pages of a listing are 0..NPages-1.
NPages == 3

\* The loop's max_pages_to_fetch, 200 in the code, scaled down.
max_pages_to_fetch == 3

\* The loop's max_items, 2000 in the code, scaled down.
max_items == 2

\* The upstream returns no page that would make all_items longer than this.
MaxCollected == 3

\* A page that is merged holds at most MaxPageLen entries.
MaxPageLen == 3

\* The crawler's max_pages_per_update, 50 in the code, scaled down.
max_pages_per_update == 2

\* The upstream reports a totalPages in 0..MaxTotal.
MaxTotal == 4

\* The players per page of the upstream listing, 20 in the code's requests.
PageSize == 2

\* The view's items_per_page, 10 in the code, scaled down.
items_per_page == 2

\* A listing that is viewed holds at most MaxViewLen items.
MaxViewLen == 4

\* The /link commands that run at a time.
NSlots == 2

\* The Discord ids of the users are 1..NUsers.
NUsers == 2

\* ------------------------------------------------------------- characters
UpperChars == <<"A", "B", "D", "E", "F", "M", "O">>
LowerChars == <<"a", "b", "d", "e", "f", "m", "o">>

\* str.lower() on one character: only upper-case letters change.
LowerChar(c) ==
    IF \E i \in DOMAIN UpperChars : UpperChars[i] = c
    THEN LowerChars[CHOOSE i \in DOMAIN UpperChars : UpperChars[i] = c]
    ELSE c

\* str.upper() on one character: only lower-case letters change.
UpperChar(c) ==
    IF \E i \in DOMAIN LowerChars : LowerChars[i] = c
    THEN UpperChars[CHOOSE i \in DOMAIN LowerChars : LowerChars[i] = c]
    ELSE c

\* str.lower(): character by character.
Lower(s) == [i \in DOMAIN s |-> LowerChar(s[i])]

\* str.upper(): character by character.
Upper(s) == [i \in DOMAIN s |-> UpperChar(s[i])]

\* ---------------------------------------------------------------- records
Ids == 1..NIds

\* The "id" key is absent from the JSON object.
NoId == 0

\* The "name" key is absent from the JSON object.
NoName == <<"~absent">>

\* The "name" key is present with the JSON value null.
NullName == <<"~null">>

Foo == <<"F", "o", "o">>
foo == <<"f", "o", "o">>
FOO == <<"F", "O", "O">>
Bob == <<"B", "o", "b">>
EmptyStr == <<>>

\* A player object as the API returns it and as the cache stores it.
Player(i, n, d) == [id |-> i, name |-> n, discordId |-> d]

\* player.get("name") is truthy and a str.
HasUsableName(p) == p.name # NoName /\ p.name # NullName /\ p.name # EmptyStr

\* The empty players dict.
EmptyStore == [k \in {} |-> Player(NoId, NoName, 0)]

\* Put with setdefault in place of the assignment: a cached key is kept.
PutIfAbsent(store, key, player) ==
    [k \in DOMAIN store \cup {key} |->
        IF k \in DOMAIN store THEN store[k] ELSE player]

\* The store replaced by one that holds the new record alone.
PutAlone(store, key, player) == [k \in {key} |-> player]

\* self.players[key] = player
Put(store, key, player) ==
    [k \in DOMAIN store \cup {key} |-> IF k = key THEN player ELSE store[k]]

VARIABLES
    players,               \* PlayerCache.players: key -> player object
    last_update,           \* PlayerCache.last_update
    highest_page_checked,  \* PlayerCache.highest_page_checked
    cache_file,            \* contents of player_cache.json
    save_calls,            \* save_cache calls since the current operation began
    players0,              \* players when the current operation began
    file0,                 \* cache_file when the current operation began
    l_pc,                  \* search_player_by_name: "idle", "await", "done"
    l_name,                \* its argument
    l_result,              \* its return value: <<>> is None
    l_requests,            \* findByName requests it has issued
    l_resp,                \* the response it received: <<>> before any
    l_raised,              \* an exception left the function
    b_pc,                  \* seller-name resolution: "idle", "lookups", "done"
    b_ids0,                \* buyer_ids / seller_ids as the resolution began
    b_hits,                \* the ids the cache pass answered
    b_todo,                \* list(ids)[:max_lookups]: the part not yet requested
    b_requested,           \* the ids a by-id request was issued for, in order
    seller_names,          \* seller_names: id -> name
    m_pc,                  \* page merge: "idle", "once", "twice"
    m_page,                \* the page being merged
    m_once,                \* players after the page was merged once
    a_pc,                  \* /buyorders, /sales: where the command stands
    a_cmd,                 \* "buyorders" or "sales"
    a_item,                \* the item argument: EmptyStr when not given
    a_buyer,               \* the buyer / seller argument: EmptyStr when not given
    filtered_by_item,      \* filtered_by_item
    buyer_id,              \* buyer_id / seller_id: <<>> is None
    next_url,              \* next_url: <<>> is None
    retry_count,           \* retry_count
    pages_retrieved,       \* pages_retrieved, counted up to max_pages_to_fetch
    all_items,             \* all_items
    buyer_ids,             \* buyer_ids / seller_ids
    a_attempts,            \* requests for next_url since the last page read
    a_failures,            \* failed requests of the command, up to max_retries
    a_all429,              \* each of those requests was answered 429
    a_allbad,              \* each was answered another status than 200, 429
    a_last,                \* the kind of the last answer
    a_page,                \* the item list of the last page read
    a_body,                \* the body of the last page read
    a_stop,                \* why the loop ended
    a_sent,                \* the messages sent with interaction.followup.send
    c_pc,                  \* update_cache: "idle", "first", "newest", "sweep"
    total_pages,           \* total_pages as last learned: <<>> before any
    start_page,            \* start_page
    c_page,                \* the sweep's loop variable `page`
    c_stop,                \* the end of the sweep's range
    c_merged,              \* the pages whose players have been merged
    c_hpc0,                \* highest_page_checked when the cycle began
    c_swept,               \* the pages the cycle's sweep requested, in order
    c_failed,              \* the sweep pages whose fetch failed in the cycle
    c_answer,              \* the kind of answer to the cycle's first request
    v_pc,                  \* the listing's view: "closed", "open"
    sort_mode,             \* sort_mode
    sorted_items,          \* sorted_items
    current_page,          \* current_page
    num_pages,             \* num_pages
    user_links,            \* MyClient.user_links: Discord id -> player id
    k_waiting,             \* the /link commands that await a response
    k_sent,                \* the last message a /link command sent
    k_first,               \* Discord id -> the player id first linked to it
    links_file,            \* user_links.json: <<>> if broken, else <<links>>
    d_pc,                  \* PlayerCache(): "boot" before load_cache, then "up"
    d_raised               \* an exception left load_cache

storeVars == <<players, last_update, highest_page_checked, cache_file>>
opVars == <<save_calls, players0, file0>>
lookupVars == <<l_pc, l_name, l_result, l_requests, l_resp, l_raised>>
batchVars == <<b_pc, b_ids0, b_hits, b_todo, b_requested, seller_names>>
mergeVars == <<m_pc, m_page, m_once>>
aggArgs == <<a_cmd, a_item, a_buyer>>
aggLoop == <<next_url, retry_count, pages_retrieved, all_items, buyer_ids,
             a_attempts, a_failures, a_all429, a_allbad, a_last, a_page,
             a_body, a_stop>>
aggVars == <<a_pc, aggArgs, filtered_by_item, buyer_id, aggLoop, a_sent>>
crawlVars == <<c_pc, total_pages, start_page, c_page, c_stop, c_merged,
               c_hpc0, c_swept, c_failed, c_answer>>
viewVars == <<v_pc, sort_mode, sorted_items, current_page, num_pages>>
linkVars == <<user_links, k_waiting, k_sent, k_first, links_file>>
loadVars == <<d_pc, d_raised>>
besideCrawl == <<viewVars, linkVars, loadVars>>
besideView == <<crawlVars, linkVars, loadVars>>
besideLink == <<crawlVars, viewVars, loadVars>>
besideLoad == <<crawlVars, viewVars, linkVars>>
moreVars == <<crawlVars, viewVars, linkVars, loadVars>>
vars == <<storeVars, opVars, lookupVars, batchVars, mergeVars, aggVars,
          moreVars>>

\* ------------------------------------------------------------ persistence
\* What json.dump writes: the three fields of the cache.
Snapshot(p, lu, hpc) ==
    [kind |-> "snapshot", players |-> p, last_update |-> lu,
     highest_page_checked |-> hpc]

\* The file after open(..., 'w') truncated it and the write failed.
TruncatedFile ==
    [kind |-> "truncated", players |-> EmptyStore, last_update |-> 0,
     highest_page_checked |-> 0]

\* No cache file exists.
MissingFile ==
    [kind |-> "missing", players |-> EmptyStore, last_update |-> 0,
     highest_page_checked |-> 0]

\* How one save_cache call can go: the write succeeds, open() fails, or the
\* dump fails after the file was opened for writing.
WriteOutcomes == {"ok", "open_failed", "write_failed"}

\* save_cache: the file afterwards; a failure is logged, never raised.
SaveCache(file, p, lu, hpc, w) ==
    CASE w = "ok" -> Snapshot(p, lu, hpc)
      [] w = "open_failed" -> file
      [] OTHER -> TruncatedFile

\* ------------------------------------------------------------------ lookup
\* The names search_player_by_name is called with.
QueryNames == {EmptyStr, Foo, foo, Bob}

\* `not name or not isinstance(name, str)`: callers pass a str.
InvalidName(name) == name = EmptyStr

\* The scan with the two .lower() calls left out.
CacheMatchesExact(store, name) ==
    {k \in DOMAIN store :
        /\ HasUsableName(store[k])
        /\ store[k].name = name}

\* The cached players the scan accepts for `name`.
CacheMatches(store, name) ==
    {k \in DOMAIN store :
        /\ HasUsableName(store[k])
        /\ Lower(store[k].name) = Lower(name)}

\* The JSON objects findByName may answer with.
LookupBodies ==
    {Player(i, n, 0) : i \in Ids \cup {NoId}, n \in {Foo, Bob, NoName}}

\* The answers to one findByName request.
\*   json     the status and a JSON object
\*   notdict  status 200 and a JSON value that is no object
\*   badjson  status 200 and response.json() raises
\*   neterr   session.get raises
LookupResponses ==
    {[kind |-> "json", status |-> s, body |-> b] :
        s \in {200, 404}, b \in LookupBodies}
    \cup {[kind |-> k, status |-> 200, body |-> Player(NoId, NoName, 0)] :
            k \in {"notdict", "badjson"}}
    \cup {[kind |-> "neterr", status |-> 0, body |-> Player(NoId, NoName, 0)]}

\* The acceptance test with the status check left out.
LookupAcceptsAnyStatus(r) ==
    /\ r.kind = "json"
    /\ r.body.id # NoId

\* `response.status == 200` and the parsed body is a dict holding "id".
LookupAccepts(r) ==
    /\ r.kind = "json"
    /\ r.status = 200
    /\ r.body.id # NoId

\* An exception the request or response.json() raises is caught by the
\* `except Exception` handlers of the function.
LookupCatches(r) == r.kind \in {"badjson", "neterr"}

\* The synchronous head of search_player_by_name: the argument check and the
\* cache scan, which either return or issue the one findByName request.
LookupStart(name) ==
    /\ l_pc = "idle"
    /\ l_name' = name
    /\ players0' = players
    /\ file0' = cache_file
    /\ save_calls' = 0
    /\ l_resp' = <<>>
    /\ l_raised' = FALSE
    /\ IF InvalidName(name)
       THEN /\ l_pc' = "done"
            /\ l_result' = <<>>
            /\ l_requests' = 0
       ELSE IF CacheMatches(players, name) # {}
       THEN /\ l_pc' = "done"
            /\ \E k \in CacheMatches(players, name) : l_result' = <<players[k]>>
            /\ l_requests' = 0
       ELSE /\ l_pc' = "await"
            /\ l_result' = <<>>
            /\ l_requests' = 1
    /\ UNCHANGED <<storeVars, batchVars, mergeVars, moreVars>>

\* The rest of search_player_by_name: the response arrives and is handled.
\* w is how the save_cache call, if one is made, goes.
LookupRespond(r, w) ==
    /\ l_pc = "await"
    /\ l_pc' = "done"
    /\ l_resp' = <<r>>
    /\ l_raised' = (r.kind \in {"badjson", "neterr"} /\ ~LookupCatches(r))
    /\ IF LookupAccepts(r)
       THEN /\ players' = Put(players, r.body.id, r.body)
            /\ cache_file' = SaveCache(cache_file, players', last_update,
                                       highest_page_checked, w)
            /\ save_calls' = save_calls + 1
            /\ l_result' = <<r.body>>
       ELSE /\ w = "ok"
            /\ l_result' = <<>>
            /\ UNCHANGED <<players, cache_file, save_calls>>
    /\ UNCHANGED <<last_update, highest_page_checked, players0, file0,
                   l_name, l_requests, batchVars, mergeVars, moreVars>>

\* The caller has the result; the next call may begin.
LookupReturn ==
    /\ l_pc = "done"
    /\ l_pc' = "idle"
    /\ UNCHANGED <<storeVars, opVars, l_name, l_result, l_requests, l_resp,
                   l_raised, batchVars, mergeVars, moreVars>>

\* ------------------------------------------------- seller-name resolution
\* `Limit to 5 seller lookups per command`
SellerLookupLimit == 5

OwnerIds == 1..NOwners

\* Python's min on two integers.
Min(a, b) == IF a <= b THEN a ELSE b

\* max_lookups without the limit.
MaxLookupsAll(n) == n

\* max_lookups = min(5, len(buyer_ids))
MaxLookups(n) == Min(SellerLookupLimit, n)

\* `seller_id in players` and `seller and "name" in seller`
BatchCacheHits(store, ids) ==
    {i \in ids : i \in DOMAIN store /\ store[i].name # NoName}

\* The cache pass with `buyer_ids.remove(seller_id)` left out.
BatchMissesKeepHits(ids, hits) == ids

\* buyer_ids after the cache pass removed every hit from it.
BatchMisses(ids, hits) == ids \ hits

\* The answers to one by-id request for seller i: a JSON object with a status,
\* or an exception.
BatchResponses(i) ==
    {[kind |-> "json", status |-> s, body |-> Player(j, n, 0)] :
        s \in {200, 404}, j \in {i, NoId}, n \in {Foo, NoName}}
    \cup {[kind |-> "neterr", status |-> 0, body |-> Player(NoId, NoName, 0)]}

\* The test without `"name" in seller`: any object answered with 200.
BatchAcceptsNameless(r) ==
    /\ r.kind = "json"
    /\ r.status = 200

\* `player_response.status == 200` and `seller and "name" in seller`
BatchAccepts(r) ==
    /\ r.kind = "json"
    /\ r.status = 200
    /\ r.body.name # NoName

\* The elements of a set of integers, in ascending order.
RECURSIVE Ascending(_)
Ascending(S) ==
    IF S = {}
    THEN <<>>
    ELSE LET m == CHOOSE x \in S : \A y \in S : x <= y
         IN <<m>> \o Ascending(S \ {m})

\* The cache pass over the ids, which awaits nothing, and the choice of the
\* ids to request: list(ids)[:max_lookups] of a set, so any max_lookups of
\* them; the order of a set's list is fixed for the run and is the ascending
\* one here.
BatchStart(ids) ==
    /\ b_pc = "idle"
    /\ b_ids0' = ids
    /\ players0' = players
    /\ file0' = cache_file
    /\ save_calls' = 0
    /\ b_hits' = BatchCacheHits(players, ids)
    /\ seller_names' = [i \in b_hits' |-> players[i].name]
    /\ b_requested' = <<>>
    /\ \E todo \in SUBSET BatchMisses(ids, b_hits') :
          /\ Cardinality(todo) =
                MaxLookups(Cardinality(BatchMisses(ids, b_hits')))
          /\ b_todo' = Ascending(todo)
          /\ b_pc' = IF todo = {} THEN "done" ELSE "lookups"
    /\ UNCHANGED <<storeVars, lookupVars, mergeVars, moreVars>>

\* One turn of the lookup loop: the by-id request for the next seller, its
\* answer r and, for an accepted answer, the write into the cache and
\* save_cache (w is how that call goes).
BatchLookup(r, w) ==
    /\ b_pc = "lookups"
    /\ b_todo # <<>>
    /\ r \in BatchResponses(Head(b_todo))
    /\ b_todo' = Tail(b_todo)
    /\ b_requested' = Append(b_requested, Head(b_todo))
    /\ b_pc' = IF b_todo' = <<>> THEN "done" ELSE "lookups"
    /\ IF BatchAccepts(r)
       THEN /\ seller_names' =
                  [k \in DOMAIN seller_names \cup {Head(b_todo)} |->
                      IF k = Head(b_todo) THEN r.body.name
                      ELSE seller_names[k]]
            /\ players' = Put(players, Head(b_todo), r.body)
            /\ cache_file' = SaveCache(cache_file, players', last_update,
                                       highest_page_checked, w)
            /\ save_calls' = save_calls + 1
       ELSE /\ w = "ok"
            /\ UNCHANGED <<seller_names, players, cache_file, save_calls>>
    /\ UNCHANGED <<last_update, highest_page_checked, players0, file0,
                   b_ids0, b_hits, lookupVars, mergeVars, moreVars>>

\* ------------------------------------------------------------- page merge
\* The entries of a players page: objects with or without an "id".
PageEntries == {Player(i, n, 0) : i \in Ids \cup {NoId}, n \in {Foo, Bob}}

\* Sequences over S of length at most n.
SeqsUpTo(S, n) == UNION {[1..k -> S] : k \in 0..n}

\* The merge with the records appended under the next free index instead of
\* stored under their id.
RECURSIVE MergePageAppend(_, _)
MergePageAppend(store, page) ==
    IF page = <<>>
    THEN store
    ELSE MergePageAppend(
            IF Head(page).id # NoId
            THEN Put(store, Cardinality(DOMAIN store) + 1, Head(page))
            ELSE store,
            Tail(page))

\* `for player in players_list: if player and "id" in player:
\*      self.players[player["id"]] = player`
RECURSIVE MergePage(_, _)
MergePage(store, page) ==
    IF page = <<>>
    THEN store
    ELSE MergePage(IF Head(page).id # NoId
                   THEN Put(store, Head(page).id, Head(page))
                   ELSE store,
                   Tail(page))

\* A page arrives and is merged into the cache.
MergeFirst(page) ==
    /\ m_pc = "idle"
    /\ m_page' = page
    /\ players' = MergePage(players, page)
    /\ m_once' = players'
    /\ m_pc' = "once"
    /\ UNCHANGED <<last_update, highest_page_checked, cache_file, opVars,
                   lookupVars, batchVars, moreVars>>

\* The same page arrives again and is merged again.
MergeAgain ==
    /\ m_pc = "once"
    /\ players' = MergePage(players, m_page)
    /\ m_pc' = "twice"
    /\ UNCHANGED <<last_update, highest_page_checked, cache_file, opVars,
                   lookupVars, batchVars, m_page, m_once, moreVars>>

\* ----------------------------------------------------------------- startup
\* The value under "players" is null or a number: len() raises on it.
NullPlayers == [k \in {-1} |-> Player(NoId, NullName, 0)]

\* The value under "players" is a list or a string: no dict, yet len()
\* accepts it.
ListPlayers == [k \in {-2} |-> Player(NoId, NullName, 0)]

\* The "players" key is absent.
AbsentPlayers == [k \in {-3} |-> Player(NoId, NullName, 0)]

\* The value under "highest_page_checked" is null or a string.
NullPage == -1

\* The "highest_page_checked" key is absent.
AbsentPage == -3

\* A file holding a JSON object with these values under the three keys.
ObjectFile(p, lu, hpc) ==
    [kind |-> "object", players |-> p, last_update |-> lu,
     highest_page_checked |-> hpc]

\* A file that open() cannot read.
UnreadableFile ==
    [kind |-> "unreadable", players |-> EmptyStore, last_update |-> 0,
     highest_page_checked |-> 0]

\* A file holding a JSON value that is no object.
NotDictFile ==
    [kind |-> "notdict", players |-> EmptyStore, last_update |-> 0,
     highest_page_checked |-> 0]

\* The cache as __init__ and the except branch of load_cache set it.
EmptyCache ==
    [players |-> EmptyStore, last_update |-> 0, highest_page_checked |-> 0]

\* load_cache raises inside its try: open() fails, json.load() fails on a
\* truncated file, data.get fails on a value that is no object, or len()
\* fails on the players value in the log line.
LoadRaises(file) ==
    \/ file.kind \in {"unreadable", "truncated", "notdict"}
    \/ file.kind \in {"snapshot", "object"} /\ file.players = NullPlayers

\* `except Exception` catches each of them.
LoadCatches(file) == TRUE

\* The cache after load_cache found `file`, from the cache `now`: a missing
\* file leaves it as it is, an exception empties it, and an object's values
\* are taken as they are, with the defaults for absent keys.
LoadCache(file, now) ==
    IF file.kind = "missing" THEN now
    ELSE IF LoadRaises(file) THEN EmptyCache
    ELSE [players |-> IF file.players = AbsentPlayers THEN EmptyStore
                      ELSE file.players,
          last_update |-> file.last_update,
          highest_page_checked |->
              IF file.highest_page_checked = AbsentPage THEN 0
              ELSE file.highest_page_checked]

\* PlayerCache.__init__ calls load_cache.
Load ==
    /\ d_pc = "boot"
    /\ LET now == [players |-> players, last_update |-> last_update,
                   highest_page_checked |-> highest_page_checked]
           got == LoadCache(cache_file, now)
       IN  /\ players' = got.players
           /\ last_update' = got.last_update
           /\ highest_page_checked' = got.highest_page_checked
    /\ d_raised' = (LoadRaises(cache_file) /\ ~LoadCatches(cache_file))
    /\ d_pc' = "up"
    /\ UNCHANGED <<cache_file, opVars, lookupVars, batchVars, mergeVars,
                   aggVars, besideLoad>>

\* ------------------------------------------------------------ the crawler
Max(a, b) == IF a >= b THEN a ELSE b

\* datetime.now().isoformat(): some timestamp, where 0 stands for None.
Timestamp == 1

\* The players the upstream lists on page p: PageSize records per page, the
\* ids distinct across the pages.
PlayersPage(p) == [i \in 1..PageSize |-> Player(p * PageSize + i, Bob, 0)]

\* The sweep begun at page 0 whatever was checked before.
StartPageZero(h, T) == 0

\* The sweep begun at the marker also when every page was checked.
StartPageKeeps(h, T) == h

\* `if self.highest_page_checked >= total_pages: start_page = 0
\*  else: start_page = self.highest_page_checked`
StartPage(h, T) == IF h >= T THEN 0 ELSE h

\* The sweep run to the last page whatever its length.
SweepStopAll(s, T) == T

\* min(total_pages, start_page + max_pages_per_update)
SweepStop(s, T) == Min(T, s + max_pages_per_update)

\* The progress marker left where it was.
AdvanceNot(h, page) == h

\* max(self.highest_page_checked, page + 1)
Advance(h, page) == Max(h, page + 1)

\* The marker left as the sweep set it.
EndOfCycleKeeps(h, T) == h

\* The end-of-cycle rule resetting the marker to 0.
EndOfCycleZero(h, T) == IF h >= T THEN 0 ELSE h

\* `if self.highest_page_checked >= total_pages:
\*      self.highest_page_checked = total_pages`
EndOfCycle(h, T) == IF h >= T THEN T ELSE h

\* The answers to the cycle's first request.
\*   page    status 200 and a JSON object with "page", whose totalPages is
\*           `total` (0 when the key is absent), with or without players
\*   status  another status
\*   nopage  status 200 and a body that is no object or has no "page"
\*   raises  the request or response.json() raises
FirstResponses ==
    {[kind |-> "page", total |-> T, embedded |-> e] :
        T \in 0..MaxTotal, e \in BOOLEAN}
    \cup {[kind |-> k, total |-> 0, embedded |-> FALSE] :
            k \in {"status", "nopage", "raises"}}

\* The answers to a later request of the cycle.
PageResponses ==
    {[kind |-> "page", total |-> 0, embedded |-> e] : e \in BOOLEAN}
    \cup {[kind |-> k, total |-> 0, embedded |-> FALSE] :
            k \in {"status", "raises"}}

\* The players of a page left unmerged.
MergedNever(store, r, p) == store

\* The cache after the players of page p, when the body r has any, were
\* merged.
Merged(store, r, p) ==
    IF r.kind = "page" /\ r.embedded
    THEN MergePage(store, PlayersPage(p))
    ELSE store

\* Lines 139-147, run without a suspension: the timestamp, the save of the
\* players p, and only then the end-of-cycle rule.
CycleEnd(p, T, w) ==
    /\ last_update' = Timestamp
    /\ cache_file' = SaveCache(cache_file, p, Timestamp,
                               highest_page_checked, w)
    /\ save_calls' = save_calls + 1
    /\ highest_page_checked' = EndOfCycle(highest_page_checked, T)
    /\ c_pc' = "idle"

\* update_cache is called and requests page 0.
CrawlBegin ==
    /\ c_pc = "idle"
    /\ c_pc' = "first"
    /\ c_hpc0' = highest_page_checked
    /\ save_calls' = 0
    /\ players0' = players
    /\ file0' = cache_file
    /\ c_swept' = <<>>
    /\ c_failed' = {}
    /\ c_answer' = "none"
    /\ UNCHANGED <<storeVars, total_pages, start_page, c_page, c_stop,
                   c_merged, lookupVars, batchVars, mergeVars, aggVars,
                   besideCrawl>>

\* The cycle given up only on a status other than 200.
FirstAnswerEndsOnStatus(r) == r.kind = "status"

\* `if response.status != 200: return`, `if not isinstance(data, dict) or
\* "page" not in data: return`, and the outer except for an exception.
FirstAnswerEnds(r) == r.kind # "page"

\* The answer to the first request. Without page information the cycle
\* returns. Otherwise total_pages is learned, the players of page 0 are
\* merged and start_page is chosen; then page 0 is requested again when
\* start_page > 0, the first page of the sweep is requested when the range
\* is not empty, and the cycle ends at once when it is.
CrawlFirst(r, w) ==
    /\ c_pc = "first"
    /\ c_answer' = r.kind
    /\ IF FirstAnswerEnds(r)
       THEN /\ w = "ok"
            /\ c_pc' = "idle"
            /\ UNCHANGED <<storeVars, save_calls, total_pages, start_page,
                           c_page, c_stop, c_merged>>
       ELSE LET s == StartPage(highest_page_checked, r.total)
                e == SweepStop(s, r.total)
            IN  /\ players' = Merged(players, r, 0)
                /\ c_merged' = IF r.embedded THEN c_merged \cup {0}
                               ELSE c_merged
                /\ total_pages' = <<r.total>>
                /\ start_page' = s
                /\ c_page' = s
                /\ c_stop' = e
                /\ IF s > 0
                   THEN /\ w = "ok"
                        /\ c_pc' = "newest"
                        /\ UNCHANGED <<last_update, highest_page_checked,
                                       cache_file, save_calls>>
                   ELSE IF s < e
                   THEN /\ w = "ok"
                        /\ c_pc' = "sweep"
                        /\ UNCHANGED <<last_update, highest_page_checked,
                                       cache_file, save_calls>>
                   ELSE CycleEnd(players', r.total, w)
    /\ UNCHANGED <<players0, file0, c_hpc0, c_swept, c_failed, lookupVars,
                   batchVars, mergeVars, aggVars, besideCrawl>>

\* The answer to the second request for page 0: its players are merged; a
\* status other than 200 is passed over; an exception ends the cycle, since
\* this request is outside the sweep's try.
CrawlNewest(r) ==
    /\ c_pc = "newest"
    /\ c_pc' = IF r.kind = "raises" THEN "idle" ELSE "sweep"
    /\ players' = Merged(players, r, 0)
    /\ c_merged' = IF r.kind = "page" /\ r.embedded THEN c_merged \cup {0}
                   ELSE c_merged
    /\ UNCHANGED <<last_update, highest_page_checked, cache_file, opVars,
                   total_pages, start_page, c_page, c_stop, c_hpc0, c_swept,
                   c_failed, c_answer,
                   lookupVars, batchVars, mergeVars, aggVars, besideCrawl>>

\* The cycle given up on the first page whose fetch fails.
AfterPageStops(r) ==
    IF r.kind \in {"status", "raises"} THEN "idle" ELSE "sweep"

\* Where the cycle stands once the answer r to a sweep request was
\* handled: the else branch and the except branch both only log and
\* sleep, so the for loop goes on whatever r was.
AfterPage(r) == "sweep"

\* The answer to the request for page c_page of the sweep: a 200 body with
\* players is merged and advances highest_page_checked; anything else is
\* logged; the loop goes on to the next page either way.
CrawlPage(r) ==
    /\ c_pc = "sweep"
    /\ c_page < c_stop
    /\ players' = Merged(players, r, c_page)
    /\ IF r.kind = "page" /\ r.embedded
       THEN /\ highest_page_checked' = Advance(highest_page_checked, c_page)
            /\ c_merged' = c_merged \cup {c_page}
       ELSE UNCHANGED <<highest_page_checked, c_merged>>
    /\ c_page' = c_page + 1
    /\ c_pc' = AfterPage(r)
    /\ c_swept' = Append(c_swept, c_page)
    /\ c_failed' = IF r.kind \in {"status", "raises"}
                   THEN c_failed \cup {c_page} ELSE c_failed
    /\ UNCHANGED <<last_update, cache_file, opVars, total_pages,
                   start_page, c_stop, c_hpc0, c_answer, lookupVars,
                   batchVars, mergeVars, aggVars, besideCrawl>>

\* The sweep's range is exhausted: the cycle ends.
CrawlFinish(w) ==
    /\ c_pc = "sweep"
    /\ c_page >= c_stop
    /\ CycleEnd(players, total_pages[1], w)
    /\ UNCHANGED <<players, players0, file0, total_pages, start_page, c_page,
                   c_stop, c_merged, c_hpc0, c_swept, c_failed, c_answer,
                   lookupVars, batchVars, mergeVars, aggVars, besideCrawl>>

\* ------------------------------------------------------- the aggregators
\* max_retries = 3
max_retries == 3

\* An item's "ownerId" key is absent.
NoOwner == 0

\* An item's "type" key is absent.
NoType == <<"~absent">>

\* An item's "type" key is present with the JSON value null.
NullType == <<"~null">>

\* item_data.get("type", "Unknown") for an absent key.
Unknown == <<"U", "n", "k", "n", "o", "w", "n">>

\* A next link carries no size parameter.
NoSize == 0

\* An element of the embedded item list: `present` is false for a falsy one
\* (null, {}); price10 is the price in tenths.
RawItem(t, p, q, o) ==
    [present |-> TRUE, type |-> t, price10 |-> p, quantity |-> q, ownerId |-> o]

NullItem ==
    [present |-> FALSE, type |-> NoType, price10 |-> 0, quantity |-> 0,
     ownerId |-> NoOwner]

\* Python's round() on a non-negative number given in tenths: to the nearest
\* integer, a half to the even one.
Round(p10) ==
    LET q == p10 \div 10
        r == p10 % 10
    IN  IF r < 5 THEN q
        ELSE IF r > 5 THEN q + 1
        ELSE IF q % 2 = 0 THEN q ELSE q + 1

\* item_data.get("type", "Unknown")
MaterialOf(it) == IF it.type = NoType THEN Unknown ELSE it.type

\* The dict appended to all_items.
Normalize(it) ==
    [material |-> MaterialOf(it), price |-> Round(it.price10),
     quantity |-> it.quantity, ownerId |-> it.ownerId]

\* The type test without the .upper() on the item's type.
SkipsExact(it, filtering, T) == filtering /\ T # EmptyStr /\ MaterialOf(it) # T

\* `filtered_by_item and item_upper and material_type.upper() != item_upper`
Skips(it, filtering, T) ==
    filtering /\ T # EmptyStr /\ Upper(MaterialOf(it)) # T

\* material_type.upper() raises: the type is null and the test reaches it.
UpperRaises(it, filtering, T) ==
    filtering /\ T # EmptyStr /\ it.type = NullType

\* The loop over items_list, from the accumulator acc = [items, owners,
\* raised]: falsy elements are passed over, an element .upper() raises on
\* ends the loop, an element of another type is skipped when both filters are
\* given, and the others are appended, their owner noted unless a buyer was
\* given.
RECURSIVE ProcessItems(_, _, _, _, _)
ProcessItems(list, acc, filtering, T, buyerGiven) ==
    IF list = <<>>
    THEN acc
    ELSE LET it == Head(list)
         IN  IF ~it.present
             THEN ProcessItems(Tail(list), acc, filtering, T, buyerGiven)
             ELSE IF UpperRaises(it, filtering, T)
             THEN [acc EXCEPT !.raised = TRUE]
             ELSE IF Skips(it, filtering, T)
             THEN ProcessItems(Tail(list), acc, filtering, T, buyerGiven)
             ELSE ProcessItems(
                    Tail(list),
                    [items |-> Append(acc.items, Normalize(it)),
                     owners |->
                        IF it.ownerId # NoOwner /\ ~buyerGiven
                        THEN acc.owners \cup {it.ownerId}
                        ELSE acc.owners,
                     raised |-> FALSE],
                    filtering, T, buyerGiven)

\* The first key looked for in _embedded.
UsualKey(cmd) == IF cmd = "buyorders" THEN "market_buyorders" ELSE "market_sales"

\* A response body that is a JSON object: whether it has "_embedded", and
\* the lists under its two keys, <<>> for an absent key, <<list>> otherwise.
Body(e, buy, sales) == [embedded |-> e, buy |-> buy, sales |-> sales]

\* items_list: the list under the command's own key when that key is
\* present, else the list under the other key when that one is, else [].
ItemsList(cmd, body) ==
    LET first == IF UsualKey(cmd) = "market_buyorders"
                 THEN body.buy ELSE body.sales
        second == IF UsualKey(cmd) = "market_buyorders"
                  THEN body.sales ELSE body.buy
    IN  IF ~body.embedded THEN <<>>
        ELSE IF first # <<>> THEN first[1]
        ELSE IF second # <<>> THEN second[1]
        ELSE <<>>

\* A request URL: the endpoint, the page it asks for and its size parameter.
Url(ep, page, size) == [ep |-> ep, page |-> page, size |-> size]

\* The size parameter of the URL built from a next link whose own size
\* parameter is s: replaced by 200 when present; when absent, /sales appends
\* size=200 and /buyorders, whose else belongs to the inner if, appends
\* nothing.
RewriteSize(cmd, s) ==
    IF s # NoSize THEN 200
    ELSE IF cmd = "sales" THEN 200
    ELSE NoSize

\* The test with the two arguments left out: every run counts as unfiltered.
UnfilteredAlways == TRUE

\* `not item and not buyer`
Unfiltered == a_item = EmptyStr /\ a_buyer = EmptyStr

\* item_upper
ItemUpper == Upper(a_item)

\* The counter after one more, counted no further than `cap`: the code tests
\* pages_retrieved only with `>= max_pages_to_fetch`, which a count past the
\* ceiling answers as the ceiling does.
CountTo(n, cap) == IF n < cap THEN n + 1 ELSE cap

\* The endpoint chosen with the type filter ahead of the owner filter.
FirstEndpointTypeFirst(item, buyer) ==
    IF item # EmptyStr THEN "type"
    ELSE IF buyer # EmptyStr THEN "owner"
    ELSE "all"

\* The endpoint of the first URL: `if buyer: ... findByOwnerId`,
\* `elif item: ... findByType`, `else:` the unfiltered listing.
FirstEndpoint(item, buyer) ==
    IF buyer # EmptyStr THEN "owner"
    ELSE IF item # EmptyStr THEN "type"
    ELSE "all"

\* The size parameter of the first URL.
FirstSize(ep) == IF ep = "all" THEN 200 ELSE 100

\* The command begins: the arguments are bound and the locals initialised.
\* With a buyer the owner is looked up first; otherwise the first URL is the
\* type endpoint when an item is given and the unfiltered endpoint when not.
AggStart(cmd, item, buyer) ==
    /\ a_pc = "idle"
    /\ a_cmd' = cmd
    /\ a_item' = item
    /\ a_buyer' = buyer
    /\ filtered_by_item' = FALSE
    /\ buyer_id' = <<>>
    /\ all_items' = <<>>
    /\ buyer_ids' = {}
    /\ retry_count' = 0
    /\ pages_retrieved' = 0
    /\ a_attempts' = 0
    /\ a_failures' = 0
    /\ a_all429' = TRUE
    /\ a_allbad' = TRUE
    /\ a_last' = "none"
    /\ a_page' = <<>>
    /\ a_body' = Body(FALSE, <<>>, <<>>)
    /\ a_stop' = "none"
    /\ a_sent' = <<>>
    /\ IF buyer # EmptyStr
       THEN /\ a_pc' = "find_owner"
            /\ next_url' = <<>>
       ELSE /\ a_pc' = "loop"
            /\ next_url' = <<Url(FirstEndpoint(item, buyer), 0,
                                 FirstSize(FirstEndpoint(item, buyer)))>>
    /\ UNCHANGED <<storeVars, opVars, lookupVars, batchVars, mergeVars, moreVars>>

\* `player = await client.search_player_by_name(buyer)` is called.
AggFindOwner ==
    /\ a_pc = "find_owner"
    /\ a_pc' = "await_owner"
    /\ LookupStart(a_buyer)
    /\ UNCHANGED <<aggArgs, filtered_by_item, buyer_id, aggLoop, a_sent>>

\* Its answer arrives.
AggOwnerAnswer(r, w) ==
    /\ a_pc = "await_owner"
    /\ LookupRespond(r, w)
    /\ UNCHANGED aggVars

\* The lookup has returned: with a player that has an id the first URL is
\* the owner endpoint, and an item given as well is filtered for on this
\* side; otherwise a message is sent and the command returns.
AggOwnerDone ==
    /\ a_pc = "await_owner"
    /\ l_pc = "done"
    /\ l_pc' = "idle"
    /\ IF l_result # <<>> /\ l_result[1].id # NoId
       THEN /\ buyer_id' = <<l_result[1].id>>
            /\ next_url' = <<Url(FirstEndpoint(a_item, a_buyer), 0,
                                 FirstSize(FirstEndpoint(a_item, a_buyer)))>>
            /\ filtered_by_item' = (a_item # EmptyStr)
            /\ a_pc' = "loop"
            /\ UNCHANGED a_sent
       ELSE /\ a_sent' = Append(a_sent,
                            IF l_result # <<>> THEN "owner_without_id"
                            ELSE "owner_not_found")
            /\ a_pc' = "done"
            /\ UNCHANGED <<buyer_id, next_url, filtered_by_item>>
    /\ UNCHANGED <<storeVars, opVars, l_name, l_result, l_requests, l_resp,
                   l_raised, batchVars, mergeVars, moreVars, aggArgs, retry_count,
                   pages_retrieved, all_items, buyer_ids, a_attempts,
                   a_failures,
                   a_all429, a_allbad, a_last,
                   a_page, a_body, a_stop>>

\* The retry counter left as it is by a 200 answer.
ResetNever(rc) == rc

\* `retry_count = 0` on status 200, before the body is read.
ResetOnSuccess(rc) == 0

\* `while next_url and retry_count < max_retries`: a request is issued.
LoopRuns ==
    /\ a_pc = "loop"
    /\ next_url # <<>>
    /\ retry_count < max_retries

\* The accumulator the item loop starts from.
Collected == [items |-> all_items, owners |-> buyer_ids, raised |-> FALSE]

\* Status 200 and a JSON object: the retry counter is reset, the page
\* counted, the items processed, then the two ceilings are applied to an
\* unfiltered run, then the next link is followed. `link` is <<>> when the
\* body has no usable next link and <<[ep, page, size]>> otherwise.
AggPage(body, link) ==
    LET got == ProcessItems(ItemsList(a_cmd, body), Collected,
                            filtered_by_item, ItemUpper, a_buyer # EmptyStr)
        pages == CountTo(pages_retrieved, max_pages_to_fetch)
    IN  /\ LoopRuns
        /\ Len(got.items) <= MaxCollected
        /\ retry_count' = ResetOnSuccess(retry_count)
        /\ pages_retrieved' = pages
        /\ a_attempts' = 0
        /\ UNCHANGED a_failures
        /\ a_all429' = TRUE
        /\ a_allbad' = TRUE
        /\ a_page' = ItemsList(a_cmd, body)
        /\ a_body' = body
        /\ all_items' = got.items
        /\ buyer_ids' = got.owners
        /\ IF got.raised
           THEN /\ a_last' = "raised"
                /\ a_stop' = "unexpected"
                /\ a_sent' = Append(a_sent, "unexpected_error")
                /\ a_pc' = "after"
                /\ UNCHANGED next_url
           ELSE /\ a_last' = "page"
                /\ UNCHANGED a_sent
                /\ IF Unfiltered /\ pages >= max_pages_to_fetch
                   THEN /\ next_url' = <<>>
                        /\ a_stop' = "page_ceiling"
                        /\ a_pc' = "after"
                   ELSE IF Len(got.items) >= max_items /\ Unfiltered
                   THEN /\ next_url' = <<>>
                        /\ a_stop' = "item_ceiling"
                        /\ a_pc' = "after"
                   ELSE IF link # <<>>
                   THEN /\ next_url' =
                            <<Url(link[1].ep, link[1].page,
                                  RewriteSize(a_cmd, link[1].size))>>
                        /\ UNCHANGED <<a_stop, a_pc>>
                   ELSE /\ next_url' = <<>>
                        /\ a_stop' = "no_next"
                        /\ a_pc' = "after"
        /\ UNCHANGED <<storeVars, opVars, lookupVars, batchVars, mergeVars, moreVars,
                       aggArgs, filtered_by_item, buyer_id>>

\* Status 200 and a body that is no JSON object or no JSON at all: reading
\* it raises an exception that is no aiohttp.ClientError, after the retry
\* counter was reset and the page counted. The handler around the loop sends
\* a message and the command goes on below the loop.
AggGarbled ==
    /\ LoopRuns
    /\ retry_count' = ResetOnSuccess(retry_count)
    /\ pages_retrieved' = CountTo(pages_retrieved, max_pages_to_fetch)
    /\ a_attempts' = CountTo(a_attempts, max_retries + 1)
    /\ a_failures' = CountTo(a_failures, max_retries)
    /\ a_all429' = FALSE
    /\ a_allbad' = FALSE
    /\ a_last' = "garbled"
    /\ a_stop' = "unexpected"
    /\ a_sent' = Append(a_sent, "unexpected_error")
    /\ a_pc' = "after"
    /\ UNCHANGED <<storeVars, opVars, lookupVars, batchVars, mergeVars, moreVars,
                   aggArgs, filtered_by_item, buyer_id, next_url, all_items,
                   buyer_ids, a_page, a_body>>

\* `except aiohttp.ClientError`, entered with the retry counter at rc: one
\* more try of the same URL below max_retries - 1, else a message and return.
ClientErrorBranch(rc) ==
    IF rc < max_retries - 1
    THEN /\ retry_count' = rc + 1
         /\ UNCHANGED <<a_pc, a_stop, a_sent>>
    ELSE /\ retry_count' = rc
         /\ a_stop' = "abort_error"
         /\ a_sent' = Append(a_sent, "fetch_failed")
         /\ a_pc' = "done"

\* Status 200 and response.json() raises an aiohttp.ClientError (a wrong
\* content type, a broken payload), after the retry counter was reset and
\* the page counted.
AggPayloadError ==
    /\ LoopRuns
    /\ pages_retrieved' = CountTo(pages_retrieved, max_pages_to_fetch)
    /\ a_attempts' = CountTo(a_attempts, max_retries + 1)
    /\ a_failures' = CountTo(a_failures, max_retries)
    /\ a_all429' = FALSE
    /\ a_allbad' = FALSE
    /\ a_last' = "payload_error"
    /\ ClientErrorBranch(ResetOnSuccess(retry_count))
    /\ UNCHANGED <<storeVars, opVars, lookupVars, batchVars, mergeVars, moreVars,
                   aggArgs, filtered_by_item, buyer_id, next_url, all_items,
                   buyer_ids, a_page, a_body>>

\* session.get raises an aiohttp.ClientError.
AggClientError ==
    /\ LoopRuns
    /\ a_attempts' = CountTo(a_attempts, max_retries + 1)
    /\ a_failures' = CountTo(a_failures, max_retries)
    /\ a_all429' = FALSE
    /\ a_allbad' = FALSE
    /\ a_last' = "client_error"
    /\ ClientErrorBranch(retry_count)
    /\ UNCHANGED <<storeVars, opVars, lookupVars, batchVars, mergeVars, moreVars,
                   aggArgs, filtered_by_item, buyer_id, next_url,
                   pages_retrieved, all_items, buyer_ids, a_page, a_body>>

\* Status 429: the retry counter goes up and the loop condition is tested
\* again with the same URL; at max_retries the loop ends and the command
\* goes on below it.
AggRateLimited ==
    /\ LoopRuns
    /\ retry_count' = retry_count + 1
    /\ a_attempts' = CountTo(a_attempts, max_retries + 1)
    /\ a_failures' = CountTo(a_failures, max_retries)
    /\ a_last' = "429"
    /\ a_allbad' = FALSE
    /\ IF retry_count' < max_retries
       THEN UNCHANGED <<a_pc, a_stop>>
       ELSE /\ a_pc' = "after"
            /\ a_stop' = "retries_429"
    /\ UNCHANGED <<storeVars, opVars, lookupVars, batchVars, mergeVars, moreVars,
                   aggArgs, filtered_by_item, buyer_id, next_url,
                   pages_retrieved, all_items, buyer_ids, a_all429,
                   a_page, a_body,
                   a_sent>>

\* Any other status: one more try of the same URL below max_retries - 1,
\* else a message and return.
AggBadStatus ==
    /\ LoopRuns
    /\ a_attempts' = CountTo(a_attempts, max_retries + 1)
    /\ a_failures' = CountTo(a_failures, max_retries)
    /\ a_all429' = FALSE
    /\ a_allbad' = a_allbad
    /\ a_last' = "bad_status"
    /\ IF retry_count < max_retries - 1
       THEN /\ retry_count' = retry_count + 1
            /\ UNCHANGED <<a_pc, a_stop, a_sent>>
       ELSE /\ a_stop' = "abort_status"
            /\ a_sent' = Append(a_sent, "api_failed")
            /\ a_pc' = "done"
            /\ UNCHANGED retry_count
    /\ UNCHANGED <<storeVars, opVars, lookupVars, batchVars, mergeVars, moreVars,
                   aggArgs, filtered_by_item, buyer_id, next_url,
                   pages_retrieved, all_items, buyer_ids, a_page, a_body>>

\* Below the loop: with no items a message says so and the command returns;
\* with items and a buyer given the listing is sent; with items and no buyer
\* the seller names are resolved first.
AggAfterLoop ==
    /\ a_pc = "after"
    /\ IF all_items = <<>>
       THEN /\ a_sent' = Append(a_sent, "none_found")
            /\ a_pc' = "done"
       ELSE IF a_buyer # EmptyStr
       THEN /\ a_sent' = Append(a_sent, "listing")
            /\ a_pc' = "done"
       ELSE /\ a_pc' = "resolve"
            /\ UNCHANGED a_sent
    /\ UNCHANGED <<storeVars, opVars, lookupVars, batchVars, mergeVars, moreVars,
                   aggArgs, filtered_by_item, buyer_id, aggLoop>>

\* The seller-name resolution begins with the ids the loop noted.
AggResolve ==
    /\ a_pc = "resolve"
    /\ BatchStart(buyer_ids)
    /\ UNCHANGED aggVars

\* One by-id request of the resolution.
AggResolveLookup(r, w) ==
    /\ a_pc = "resolve"
    /\ BatchLookup(r, w)
    /\ UNCHANGED aggVars

\* The resolution is over and the listing is sent.
AggShow ==
    /\ a_pc = "resolve"
    /\ b_pc = "done"
    /\ b_pc' = "idle"
    /\ a_sent' = Append(a_sent, "listing")
    /\ a_pc' = "done"
    /\ UNCHANGED <<storeVars, opVars, lookupVars, b_ids0, b_hits, b_todo,
                   b_requested, seller_names, mergeVars, moreVars, aggArgs,
                   filtered_by_item, buyer_id, aggLoop>>

\* ------------------------------------------------------- the listing view
\* One element inserted into a list ordered by price, behind the elements
\* that do not come after it: list.sort() is stable, with reverse=True too.
RECURSIVE Insert(_, _, _)
Insert(x, list, reverse) ==
    IF list = <<>> THEN <<x>>
    ELSE IF (IF reverse THEN Head(list).price >= x.price
             ELSE Head(list).price <= x.price)
    THEN <<Head(list)>> \o Insert(x, Tail(list), reverse)
    ELSE <<x>> \o list

\* sorted_items.sort(key=price, reverse=reverse) on a copy of `list`.
RECURSIVE SortByPrice(_, _)
SortByPrice(list, reverse) ==
    IF list = <<>> THEN <<>>
    ELSE Insert(list[Len(list)],
                SortByPrice(SubSeq(list, 1, Len(list) - 1), reverse),
                reverse)

\* sort_items with the default mode sorting by price as well.
SortItemsAlways(items, mode) ==
    SortByPrice(items, mode = "price_high_low")

\* sort_items(mode): a fresh copy of all_items, sorted by price for the two
\* price modes and left in the original order otherwise.
SortItems(items, mode) ==
    CASE mode = "price_low_high" -> SortByPrice(items, FALSE)
      [] mode = "price_high_low" -> SortByPrice(items, TRUE)
      [] OTHER -> items

\* (len(sorted_items) + items_per_page - 1) // items_per_page
NumPages(list) == (Len(list) + items_per_page - 1) \div items_per_page

\* The values of the sort dropdown.
SortModes == {"default", "price_low_high", "price_high_low"}

\* The listing is sent: lines 667-693 and the first update_view_and_send.
ViewOpen ==
    /\ v_pc = "closed"
    /\ a_pc = "done"
    /\ all_items # <<>>
    /\ v_pc' = "open"
    /\ sort_mode' = "default"
    /\ sorted_items' = SortItems(all_items, "default")
    /\ current_page' = 0
    /\ num_pages' = NumPages(sorted_items')
    /\ UNCHANGED <<storeVars, opVars, lookupVars, batchVars, mergeVars,
                   aggVars, besideView>>

\* sort_callback: the dropdown selects a mode.
SortCallback(mode) ==
    /\ v_pc = "open"
    /\ sort_mode' = mode
    /\ current_page' = 0
    /\ sorted_items' = SortItems(all_items, mode)
    /\ num_pages' = NumPages(sorted_items')
    /\ UNCHANGED <<storeVars, opVars, lookupVars, batchVars, mergeVars,
                   aggVars, besideView, v_pc>>

\* The Previous button: button_callback(max(0, current_page - 1)).
PreviousPage ==
    /\ v_pc = "open"
    /\ current_page' = Max(0, current_page - 1)
    /\ UNCHANGED <<storeVars, opVars, lookupVars, batchVars, mergeVars,
                   aggVars, besideView, v_pc, sort_mode, sorted_items,
                   num_pages>>

\* The page after the current one, whatever the number of pages.
NextTargetUnclamped(page, n) == page + 1

\* min(num_pages - 1, current_page + 1)
NextTarget(page, n) == Min(n - 1, page + 1)

\* The Next button: button_callback(min(num_pages - 1, current_page + 1)).
NextPage ==
    /\ v_pc = "open"
    /\ current_page' = NextTarget(current_page, num_pages)
    /\ UNCHANGED <<storeVars, opVars, lookupVars, batchVars, mergeVars,
                   aggVars, besideView, v_pc, sort_mode, sorted_items,
                   num_pages>>

\* ------------------------------------------------------------------ /link
\* The Discord users; user u stands for the id whose str() is the key.
Users == 1..NUsers

\* A record's "id" key holds an empty string: present, and falsy.
EmptyId == -1

\* The usernames /link is called with.
LinkNames == {Foo, Bob}

\* The JSON objects findByName and the by-id endpoint may answer with.  The
\* discordId of a record is 0 if absent, null or empty, u for the string of
\* user u's id, and -u for the same digits as a JSON number.
LinkBodies ==
    {Player(i, Foo, d) : i \in Ids, d \in {0, 1}}
    \cup {Player(EmptyId, Foo, 1), Player(1, NoName, -1)}

\* The answers to one request of a /link command.
LinkResponses ==
    {[kind |-> "json", status |-> s, body |-> b] :
        s \in {200, 404}, b \in LinkBodies}
    \cup {[kind |-> "json", status |-> 200, body |-> Player(NoId, Foo, 1)]}
    \cup {[kind |-> k, status |-> 200, body |-> Player(NoId, NoName, 0)] :
            k \in {"notdict", "badjson"}}
    \cup {[kind |-> "neterr", status |-> 0, body |-> Player(NoId, NoName, 0)]}

\* A /link command of user u that awaits the answer to its request: the
\* by-id request of get_linked_player ("fetch") or the findByName request
\* of search_player_by_name ("search").
Waiting(u, name, kind) == [user |-> u, name |-> name, kind |-> kind]

\* self.user_links[key] = player_id
PutLink(links, key, player_id) ==
    [u \in DOMAIN links \cup {key} |->
        IF u = key THEN player_id ELSE links[u]]

\* save_user_links: the file holds the links, or is left broken by a write
\* that failed.
SaveUserLinks(links, w) == IF w = "ok" THEN <<links>> ELSE <<>>

\* The message for a user who is linked already, from what
\* get_linked_player returned.
AlreadyLinked(result) ==
    IF result # <<>> /\ result[1].name # NoName
    THEN "already_linked"
    ELSE "already_linked_unknown"

\* The checks without the comparison of the record's discordId with the
\* user's id.
LinkOutcomeUnverified(u, result) ==
    IF result = <<>> THEN "not_found"
    ELSE IF result[1].id \in {NoId, EmptyId} THEN "no_id"
    ELSE IF result[1].discordId = 0 THEN "no_discord"
    ELSE "linked"

\* The checks of /link on what search_player_by_name returned to user u:
\* the message the command sends, "linked" when every check passed.
LinkOutcome(u, result) ==
    IF result = <<>> THEN "not_found"
    ELSE IF result[1].id \in {NoId, EmptyId} THEN "no_id"
    ELSE IF result[1].discordId = 0 THEN "no_discord"
    ELSE IF result[1].discordId # u THEN "other_discord"
    ELSE "linked"

\* The tail of /link once the search returned to user u: the checks, the
\* assignment to user_links with its save, and the message.  lw is how
\* the write of user_links.json goes.
LinkDecide(u, result, lw) ==
    LET out == LinkOutcome(u, result)
    IN  /\ k_sent' = out
        /\ IF out = "linked"
           THEN /\ user_links' = PutLink(user_links, u, result[1].id)
                /\ links_file' = SaveUserLinks(user_links', lw)
                /\ k_first' = IF u \in DOMAIN k_first THEN k_first
                              ELSE PutLink(k_first, u, result[1].id)
           ELSE /\ lw = "ok"
                /\ UNCHANGED <<user_links, links_file, k_first>>

\* /link by user u with `name`, up to its first request: the is_user_linked
\* check, then either get_linked_player or search_player_by_name, each of
\* which answers from the cache or issues one request.
LinkStart(u, name, lw) ==
    /\ Cardinality(k_waiting) < NSlots
    /\ IF u \in DOMAIN user_links
       THEN /\ lw = "ok"
            /\ IF user_links[u] \in DOMAIN players
               THEN /\ k_sent' = AlreadyLinked(<<players[user_links[u]]>>)
                    /\ UNCHANGED k_waiting
               ELSE /\ Waiting(u, name, "fetch") \notin k_waiting
                    /\ k_waiting' = k_waiting \cup {Waiting(u, name, "fetch")}
                    /\ UNCHANGED k_sent
            /\ UNCHANGED <<user_links, links_file, k_first>>
       ELSE IF InvalidName(name)
       THEN /\ LinkDecide(u, <<>>, lw)
            /\ UNCHANGED k_waiting
       ELSE IF CacheMatches(players, name) # {}
       THEN /\ \E k \in CacheMatches(players, name) :
                  LinkDecide(u, <<players[k]>>, lw)
            /\ UNCHANGED k_waiting
       ELSE /\ lw = "ok"
            /\ Waiting(u, name, "search") \notin k_waiting
            /\ k_waiting' = k_waiting \cup {Waiting(u, name, "search")}
            /\ UNCHANGED <<k_sent, user_links, links_file, k_first>>
    /\ UNCHANGED <<storeVars, opVars, lookupVars, batchVars, mergeVars,
                   aggVars, besideLink>>

\* The by-id answer to get_linked_player arrives for command c: a 200
\* object holding "id" is cached and saved, and the already-linked message
\* is sent.  w is how the save_cache call, if one is made, goes.
LinkFetched(c, r, w) ==
    /\ c \in k_waiting
    /\ c.kind = "fetch"
    /\ k_waiting' = k_waiting \ {c}
    /\ IF r.kind \in {"json", "notdict"} /\ r.status = 200
       THEN /\ k_sent' = AlreadyLinked(<<r.body>>)
            /\ IF r.body.id # NoId
               THEN /\ players' = Put(players, r.body.id, r.body)
                    /\ cache_file' = SaveCache(cache_file, players',
                                               last_update,
                                               highest_page_checked, w)
               ELSE /\ w = "ok"
                    /\ UNCHANGED <<players, cache_file>>
       ELSE /\ w = "ok"
            /\ k_sent' = AlreadyLinked(<<>>)
            /\ UNCHANGED <<players, cache_file>>
    /\ UNCHANGED <<last_update, highest_page_checked, opVars, lookupVars,
                   batchVars, mergeVars, aggVars, besideLink, user_links,
                   links_file, k_first>>

\* The findByName answer to search_player_by_name arrives for command c:
\* an accepted record is cached and saved, and the command goes through
\* its checks with no second look at user_links.
LinkFound(c, r, w, lw) ==
    /\ c \in k_waiting
    /\ c.kind = "search"
    /\ k_waiting' = k_waiting \ {c}
    /\ IF LookupAccepts(r)
       THEN /\ players' = Put(players, r.body.id, r.body)
            /\ cache_file' = SaveCache(cache_file, players', last_update,
                                       highest_page_checked, w)
            /\ LinkDecide(c.user, <<r.body>>, lw)
       ELSE /\ w = "ok"
            /\ UNCHANGED <<players, cache_file>>
            /\ LinkDecide(c.user, <<>>, lw)
    /\ UNCHANGED <<last_update, highest_page_checked, opVars, lookupVars,
                   batchVars, mergeVars, aggVars, besideLink>>

\* --------------------------------------------------------- initial states
InitStore ==
    /\ last_update = 0
    /\ highest_page_checked = 0
    /\ cache_file = MissingFile
    /\ save_calls = 0
    /\ players0 = EmptyStore
    /\ file0 = MissingFile

InitLookup ==
    /\ l_pc = "idle"
    /\ l_name = EmptyStr
    /\ l_result = <<>>
    /\ l_requests = 0
    /\ l_resp = <<>>
    /\ l_raised = FALSE

InitBatch ==
    /\ b_pc = "idle"
    /\ b_ids0 = {}
    /\ b_hits = {}
    /\ b_todo = <<>>
    /\ b_requested = <<>>
    /\ seller_names = [i \in {} |-> NoName]

InitMerge ==
    /\ m_pc = "idle"
    /\ m_page = <<>>
    /\ m_once = EmptyStore

InitCrawl ==
    /\ c_pc = "idle"
    /\ total_pages = <<>>
    /\ start_page = 0
    /\ c_page = 0
    /\ c_stop = 0
    /\ c_merged = {}
    /\ c_hpc0 = 0
    /\ c_swept = <<>>
    /\ c_failed = {}
    /\ c_answer = "none"

InitView ==
    /\ v_pc = "closed"
    /\ sort_mode = "default"
    /\ sorted_items = <<>>
    /\ current_page = 0
    /\ num_pages = 0

InitLink ==
    /\ user_links = [u \in {} |-> NoId]
    /\ k_waiting = {}
    /\ k_sent = "none"
    /\ k_first = [u \in {} |-> NoId]
    /\ links_file = <<user_links>>

InitLoad ==
    /\ d_pc = "up"
    /\ d_raised = FALSE

InitMore ==
    /\ InitCrawl
    /\ InitView
    /\ InitLink
    /\ InitLoad

InitAgg ==
    /\ a_pc = "idle"
    /\ a_cmd = "buyorders"
    /\ a_item = EmptyStr
    /\ a_buyer = EmptyStr
    /\ filtered_by_item = FALSE
    /\ buyer_id = <<>>
    /\ next_url = <<>>
    /\ retry_count = 0
    /\ pages_retrieved = 0
    /\ all_items = <<>>
    /\ buyer_ids = {}
    /\ a_attempts = 0
    /\ a_failures = 0
    /\ a_all429 = TRUE
    /\ a_allbad = TRUE
    /\ a_last = "none"
    /\ a_page = <<>>
    /\ a_body = Body(FALSE, <<>>, <<>>)
    /\ a_stop = "none"
    /\ a_sent = <<>>

\* --------------------------------------------------------- specifications
\* Name lookups, one after another, on a cache that starts empty.
LookupInit ==
    /\ players = EmptyStore
    /\ InitStore
    /\ InitLookup
    /\ InitBatch
    /\ InitMerge
    /\ InitAgg
    /\ InitMore

LookupNext ==
    \/ \E name \in QueryNames :
          LookupStart(name) /\ UNCHANGED <<aggVars, moreVars>>
    \/ \E r \in LookupResponses, w \in WriteOutcomes :
          LookupRespond(r, w) /\ UNCHANGED <<aggVars, moreVars>>
    \/ LookupReturn /\ UNCHANGED <<aggVars, moreVars>>

SpecLookup == LookupInit /\ [][LookupNext]_vars

\* The caches a seller-name resolution may find: the ids up to c are cached,
\* those in `nameless` without a "name".
BatchStores ==
    {[i \in 1..c |-> Player(i, IF i \in nameless THEN NoName ELSE Bob, 0)] :
        c \in 0..NOwners, nameless \in {{}, {1}}}

\* One seller-name resolution on any of those caches.
BatchInit ==
    /\ players \in BatchStores
    /\ InitStore
    /\ InitLookup
    /\ InitBatch
    /\ InitMerge
    /\ InitAgg
    /\ InitMore

\* The id sets a resolution is given: the runs lo..hi of owner ids, which
\* with the caches above give every number of hits and of misses.
BatchIdSets == {lo..hi : lo \in OwnerIds, hi \in 0..NOwners}

BatchNext ==
    \/ \E ids \in BatchIdSets :
          BatchStart(ids) /\ UNCHANGED <<aggVars, moreVars>>
    \/ \E r \in UNION {BatchResponses(i) : i \in OwnerIds},
          w \in WriteOutcomes : BatchLookup(r, w) /\ UNCHANGED <<aggVars, moreVars>>

SpecBatch == BatchInit /\ [][BatchNext]_vars

\* The caches a page is merged into.
MergeStores ==
    {s \in UNION {[D -> {Player(i, n, 0) : i \in Ids, n \in {Foo, Bob}}] :
                    D \in SUBSET Ids} :
        \A k \in DOMAIN s : s[k].id = k}

\* One page merged twice into any of those caches.
MergeInit ==
    /\ players \in MergeStores
    /\ InitStore
    /\ InitLookup
    /\ InitBatch
    /\ InitMerge
    /\ InitAgg
    /\ InitMore

MergeNext ==
    \/ \E page \in SeqsUpTo(PageEntries, MaxPageLen) :
          MergeFirst(page) /\ UNCHANGED <<aggVars, moreVars>>
    \/ MergeAgain /\ UNCHANGED <<aggVars, moreVars>>

SpecMerge == MergeInit /\ [][MergeNext]_vars

\* The items the upstream lists for the commands: an emerald offer in lower
\* case by owner 1, one in upper case by owner 2, an offer of another type
\* without owner, one without a type, one whose type is null, and a falsy
\* element.
ItemLower == RawItem(<<"e", "m">>, 25, 1, 1)
ItemUpperCase == RawItem(<<"E", "M">>, 25, 1, 2)
ItemOther == RawItem(<<"d", "i">>, 25, 1, NoOwner)
ItemNoType == RawItem(NoType, 25, 1, NoOwner)
ItemNullType == RawItem(NullType, 25, 1, 1)

\* The item argument of the commands when one is given.
ItemArg == <<"e", "M">>

\* The next links the page answering the request `url` may carry: none, or
\* one to any page of the same endpoint, with or without a size parameter.
Links(url) ==
    {<<>>} \cup
    {<<Url(u.ep, q, z)>> : u \in {url[i] : i \in 1..Len(url)},
                          q \in 0..(NPages - 1), z \in {NoSize, 20}}

\* The JSON objects with the lists of L under the two keys or without them.
Bodies(L) ==
    {Body(TRUE, b, z) : b \in {<<>>} \cup {<<l>> : l \in L},
                        z \in {<<>>} \cup {<<l>> : l \in L}}
    \cup {Body(FALSE, <<>>, <<>>)}

\* The answers to the owner lookup of a command.
AggOwnerResponses ==
    {[kind |-> "json", status |-> 200, body |-> Player(1, Foo, 0)],
     [kind |-> "json", status |-> 200, body |-> Player(NoId, Foo, 0)],
     [kind |-> "json", status |-> 404, body |-> Player(NoId, NoName, 0)],
     [kind |-> "neterr", status |-> 0, body |-> Player(NoId, NoName, 0)]}

\* The answers to a by-id request of a command's name resolution.
AggSellerResponses ==
    {[kind |-> "json", status |-> 200, body |-> Player(i, Bob, 0)] :
        i \in OwnerIds}
    \cup {[kind |-> "json", status |-> 404, body |-> Player(NoId, NoName, 0)]}

\* The steps of one command around its loop.
AggFrame ==
    \/ \E cmd \in {"buyorders", "sales"}, item \in {EmptyStr, ItemArg},
          buyer \in {EmptyStr, foo} : AggStart(cmd, item, buyer)
    \/ AggFindOwner
    \/ \E r \in AggOwnerResponses : AggOwnerAnswer(r, "ok")
    \/ AggOwnerDone
    \/ AggAfterLoop
    \/ AggResolve
    \/ \E r \in AggSellerResponses : AggResolveLookup(r, "ok")
    \/ AggShow

\* The answers that are no page.
AggFailures ==
    \/ AggGarbled
    \/ AggPayloadError
    \/ AggClientError
    \/ AggRateLimited
    \/ AggBadStatus

\* One command against an upstream that answers anything: every status,
\* every body shape, a next link to any page or none.
AggInit ==
    /\ players = EmptyStore
    /\ InitStore
    /\ InitLookup
    /\ InitBatch
    /\ InitMerge
    /\ InitAgg
    /\ InitMore

AggLists == {<<>>, <<ItemLower>>, <<ItemOther>>}

\* The bodies of this upstream for the command cmd: items under the
\* command's usual key, an _embedded section with neither key, or no
\* _embedded section.
AggBodies(cmd) ==
    {b \in Bodies(AggLists \ {<<>>}) :
        IF cmd = "buyorders" THEN b.sales = <<>> ELSE b.buy = <<>>}

\* The next links of this upstream: none, or one that carries a size.
AggLinks(url) == {l \in Links(url) : l = <<>> \/ l[1].size # NoSize}

AggNext ==
    \/ AggFrame
    \/ \E body \in AggBodies(a_cmd), link \in AggLinks(next_url) :
          AggPage(body, link)
    \/ AggFailures

SpecAgg == AggInit /\ [][AggNext]_vars

\* One command against an upstream that answers every request with status
\* 200 and a well-formed page; the pages mix the types, their cases and the
\* malformed elements.
PageLists ==
    {<<>>,
     <<ItemLower, ItemOther>>,
     <<ItemOther, ItemUpperCase>>,
     <<ItemNoType, NullItem, ItemLower>>,
     <<ItemLower, ItemNullType, ItemUpperCase>>}

\* The bodies of this upstream: a list under one of the two keys, an
\* empty list under one key and items under the other, an _embedded
\* section with neither key, or no _embedded section.
PageBodies ==
    {b \in Bodies(PageLists) : b.buy = <<>> \/ b.sales = <<>>}
    \cup {Body(TRUE, << <<>> >>, <<l>>) : l \in {<<ItemLower, ItemOther>>}}
    \cup {Body(TRUE, <<l>>, << <<>> >>) : l \in {<<ItemLower, ItemOther>>}}

PagesNext ==
    \/ AggFrame
    \/ \E body \in PageBodies, link \in Links(next_url) : AggPage(body, link)

SpecPages == AggInit /\ [][PagesNext]_vars

\* The same with the command running whenever it can: each request is
\* answered and each step below the loop is taken.
FairSpecPages == SpecPages /\ WF_vars(PagesNext)

\* Crawl cycles, one after another, against an upstream that answers
\* anything and reports any totalPages, on a cache whose file held any
\* highest_page_checked.
CrawlInit ==
    /\ players = EmptyStore
    /\ last_update = 0
    /\ highest_page_checked \in 0..MaxTotal
    /\ cache_file = Snapshot(EmptyStore, 0, highest_page_checked)
    /\ save_calls = 0
    /\ players0 = EmptyStore
    /\ file0 = cache_file
    /\ InitLookup
    /\ InitBatch
    /\ InitMerge
    /\ InitAgg
    /\ InitMore

\* How the cycle's save goes: the snapshot is written, or the write fails
\* and leaves a truncated file.
CrawlWrites == {"ok", "write_failed"}

CrawlNext ==
    \/ CrawlBegin
    \/ \E r \in FirstResponses, w \in CrawlWrites : CrawlFirst(r, w)
    \/ \E r \in PageResponses : CrawlNewest(r)
    \/ \E r \in PageResponses : CrawlPage(r)
    \/ \E w \in CrawlWrites : CrawlFinish(w)

SpecCrawl == CrawlInit /\ [][CrawlNext]_vars

\* Crawl cycles against an upstream whose totalPages stays what the first
\* cycle learned and whose every answer is a 200 body with players, on an
\* empty cache with highest_page_checked = 0.
SteadyInit ==
    /\ players = EmptyStore
    /\ InitStore
    /\ InitLookup
    /\ InitBatch
    /\ InitMerge
    /\ InitAgg
    /\ InitMore

SteadyFirst ==
    {r \in FirstResponses :
        /\ r.kind = "page"
        /\ r.embedded
        /\ total_pages # <<>> => r.total = total_pages[1]}

SteadyPages == {r \in PageResponses : r.kind = "page" /\ r.embedded}

SteadyNext ==
    \/ CrawlBegin
    \/ \E r \in SteadyFirst, w \in WriteOutcomes : CrawlFirst(r, w)
    \/ \E r \in SteadyPages : CrawlNewest(r)
    \/ \E r \in SteadyPages : CrawlPage(r)
    \/ \E w \in WriteOutcomes : CrawlFinish(w)

SpecSteady == SteadyInit /\ [][SteadyNext]_vars

\* The same with cache_update_task calling update_cache again and again and
\* every request answered.
FairSpecSteady == SpecSteady /\ WF_vars(SteadyNext)

\* Crawl cycles against an upstream whose totalPages stays what the first
\* cycle learned and whose answers are anything else, on an empty cache
\* with highest_page_checked = 0.
FlakyFirst ==
    {r \in FirstResponses :
        (r.kind = "page" /\ total_pages # <<>>) => r.total = total_pages[1]}

FlakyNext ==
    \/ CrawlBegin
    \/ \E r \in FlakyFirst : CrawlFirst(r, "ok")
    \/ \E r \in PageResponses : CrawlNewest(r)
    \/ \E r \in PageResponses : CrawlPage(r)
    \/ CrawlFinish("ok")

SpecFlaky == SteadyInit /\ [][FlakyNext]_vars

\* The view of a listing: the command has ended with any list of collected
\* items, of equal and of different prices, and the user presses the buttons
\* and selects sort modes in any order.
ViewItems ==
    {[material |-> <<"E", "M">>, price |-> 1, quantity |-> 1, ownerId |-> 1],
     [material |-> <<"E", "M">>, price |-> 2, quantity |-> 1, ownerId |-> 1],
     [material |-> <<"d", "i">>, price |-> 2, quantity |-> 3, ownerId |-> 2]}

ViewInit ==
    /\ players = EmptyStore
    /\ InitStore
    /\ InitLookup
    /\ InitBatch
    /\ InitMerge
    /\ InitMore
    /\ a_pc = "done"
    /\ a_cmd = "buyorders"
    /\ a_item = EmptyStr
    /\ a_buyer = foo
    /\ filtered_by_item = FALSE
    /\ buyer_id = <<1>>
    /\ next_url = <<>>
    /\ retry_count = 0
    /\ pages_retrieved = 1
    /\ all_items \in SeqsUpTo(ViewItems, MaxViewLen) \ {<<>>}
    /\ buyer_ids = {}
    /\ a_attempts = 0
    /\ a_failures = 0
    /\ a_all429 = TRUE
    /\ a_allbad = TRUE
    /\ a_last = "page"
    /\ a_page = <<>>
    /\ a_body = Body(FALSE, <<>>, <<>>)
    /\ a_stop = "no_next"
    /\ a_sent = <<"listing">>

ViewNext ==
    \/ ViewOpen
    \/ \E mode \in SortModes : SortCallback(mode)
    \/ PreviousPage
    \/ NextPage

SpecView == ViewInit /\ [][ViewNext]_vars

\* One crawl cycle, one name lookup and one seller-name resolution whose
\* requests are in flight together: their answers arrive, and their writes
\* to the cache happen, in any order. The three write records of the same
\* ids: the crawler the upstream's listing, the lookup and the resolution
\* what their own requests return. The cycle is the first on an empty cache,
\* whose sweep begins at page 0.
RaceSellerResponses ==
    {r \in UNION {BatchResponses(i) : i \in Ids} :
        r.kind = "json" /\ r.body.id # NoId}

RaceNext ==
    \/ total_pages = <<>> /\ CrawlBegin
    \/ \E r \in FirstResponses : CrawlFirst(r, "ok")
    \/ \E r \in PageResponses : CrawlPage(r)
    \/ CrawlFinish("ok")
    \/ LookupStart(Foo) /\ UNCHANGED aggVars
    \/ \E r \in LookupResponses : LookupRespond(r, "ok") /\ UNCHANGED aggVars
    \/ \E ids \in SUBSET Ids : BatchStart(ids) /\ UNCHANGED aggVars
    \/ \E r \in RaceSellerResponses : BatchLookup(r, "ok") /\ UNCHANGED aggVars

SpecRace == SteadyInit /\ [][RaceNext]_vars

\* The start of the process on any cache file: none, an unreadable or
\* truncated one, a JSON value that is no object, a snapshot that save_cache
\* wrote, and objects with keys absent or values of other types.
LoadFiles ==
    {MissingFile, UnreadableFile, TruncatedFile, NotDictFile}
    \cup {Snapshot(p, lu, h) :
            p \in MergeStores, lu \in {0, Timestamp}, h \in 0..MaxTotal}
    \cup {ObjectFile(p, lu, h) :
            p \in MergeStores \cup {NullPlayers, ListPlayers, AbsentPlayers},
            lu \in {0, Timestamp}, h \in {NullPage, AbsentPage}}
    \cup {ObjectFile(p, lu, h) :
            p \in {NullPlayers, ListPlayers, AbsentPlayers},
            lu \in {0, Timestamp}, h \in 0..MaxTotal}

LoadInit ==
    /\ players = EmptyStore
    /\ last_update = 0
    /\ highest_page_checked = 0
    /\ cache_file \in LoadFiles
    /\ save_calls = 0
    /\ players0 = EmptyStore
    /\ file0 = cache_file
    /\ InitLookup
    /\ InitBatch
    /\ InitMerge
    /\ InitAgg
    /\ InitCrawl
    /\ InitView
    /\ InitLink
    /\ d_pc = "boot"
    /\ d_raised = FALSE

LoadNext == Load

SpecLoad == LoadInit /\ [][LoadNext]_vars

\* The links load_user_links finds in user_links.json: none, or one that an
\* earlier run of the process saved.
LinkFiles ==
    {[u \in {} |-> NoId]} \cup {[u \in {v} |-> i] : v \in Users, i \in Ids}

\* /link commands of the users, at most NSlots of them waiting at a time
\* and no two alike, on an empty cache.
LinkInit ==
    /\ players = EmptyStore
    /\ InitStore
    /\ InitLookup
    /\ InitBatch
    /\ InitMerge
    /\ InitAgg
    /\ InitCrawl
    /\ InitView
    /\ InitLoad
    /\ user_links \in LinkFiles
    /\ links_file = <<user_links>>
    /\ k_first = user_links
    /\ k_waiting = {}
    /\ k_sent = "none"

LinkNext ==
    \/ \E u \in Users, name \in LinkNames, lw \in {"ok", "failed"} :
          LinkStart(u, name, lw)
    \/ \E c \in k_waiting, r \in LinkResponses : LinkFetched(c, r, "ok")
    \/ \E c \in k_waiting, r \in LinkResponses, lw \in {"ok", "failed"} :
          LinkFound(c, r, "ok", lw)

SpecLink == LinkInit /\ [][LinkNext]_vars

\* The same commands, each for the one username, with every write to the
\* two files succeeding.
OwnNext ==
    \/ \E u \in Users : LinkStart(u, Foo, "ok")
    \/ \E c \in k_waiting, r \in LinkResponses : LinkFetched(c, r, "ok")
    \/ \E c \in k_waiting, r \in LinkResponses : LinkFound(c, r, "ok", "ok")

SpecOwn == LinkInit /\ [][OwnNext]_vars

\* Every writer of the cache, one operation after another in any order:
\* crawl cycles, name lookups, one seller-name resolution and /link
\* commands of a user who is linked already, so that get_linked_player
\* fetches the record the cache lacks.
StoreInit ==
    /\ LinkInit
    /\ user_links = [u \in {1} |-> NIds]

\* No operation is in flight.
Quiet ==
    /\ c_pc = "idle"
    /\ l_pc = "idle"
    /\ b_pc \in {"idle", "done"}
    /\ k_waiting = {}

\* The answers to the first request of a cycle here: a page with players
\* of a listing one page longer than a sweep, or another status.
StoreFirstResponses ==
    {r \in FirstResponses :
        \/ r.kind = "status"
        \/ /\ r.kind = "page"
           /\ r.embedded
           /\ r.total = Min(MaxTotal, max_pages_per_update + 1)}

\* The answers to the later requests of a cycle here.
StorePageResponses ==
    {r \in PageResponses : r.kind = "status" \/ r.embedded}

\* The answers to findByName here.
StoreLookupResponses ==
    {r \in LookupResponses :
        \/ r.kind = "neterr"
        \/ r.kind = "json" /\ r.status = 200 /\ r.body = Player(1, Foo, 0)}

\* The answers to the by-id request of get_linked_player here.
StoreLinkResponses ==
    {r \in LinkResponses :
        \/ r.kind = "neterr"
        \/ /\ r.kind = "json"
           /\ r.status = 200
           /\ r.body.discordId = 1
           /\ r.body.id \in {NIds, NoId}}

\* The answers to the by-id requests of the resolution here.
StoreSellerResponses ==
    {r \in UNION {BatchResponses(i) : i \in Ids} :
        r.kind = "neterr" \/ (r.status = 200 /\ r.body.name = Foo)}

StoreNext ==
    \/ Quiet /\ CrawlBegin
    \/ \E r \in StoreFirstResponses : CrawlFirst(r, "ok")
    \/ \E r \in StorePageResponses : CrawlNewest(r)
    \/ \E r \in StorePageResponses : CrawlPage(r)
    \/ CrawlFinish("ok")
    \/ Quiet /\ LookupStart(Foo) /\ UNCHANGED aggVars
    \/ \E r \in StoreLookupResponses :
          LookupRespond(r, "ok") /\ UNCHANGED aggVars
    \/ LookupReturn /\ UNCHANGED aggVars
    \/ Quiet /\ BatchStart(Ids) /\ UNCHANGED aggVars
    \/ \E r \in StoreSellerResponses :
          BatchLookup(r, "ok") /\ UNCHANGED aggVars
    \/ \E u \in DOMAIN user_links : Quiet /\ LinkStart(u, Foo, "ok")
    \/ \E c \in k_waiting, r \in StoreLinkResponses : LinkFetched(c, r, "ok")

SpecStore == StoreInit /\ [][StoreNext]_vars

\* ----------------------------------------------------------------- claims
\* The loop has ended and the last message is one of the loop's two error
\* messages: the command returned from inside the loop.
Aborted ==
    /\ a_pc = "done"
    /\ a_sent # <<>>
    /\ a_sent[Len(a_sent)] \in {"api_failed", "fetch_failed"}

\* The loop was left with every request for its last URL answered 429.
Only429 == a_pc \in {"after", "resolve", "done"} /\ a_last = "429" /\ a_all429

\* C1 as stated: when the upstream answers every request for the current URL
\* with 429, the URL is requested max_retries times after the first attempt
\* and the command then ends in the Aborted outcome.
C1_AsStated ==
    Only429 =>
        /\ a_attempts = 1 + max_retries
        /\ a_pc = "done" => Aborted

\* C1, what the loop does: the URL was requested max_retries times in all,
\* the loop ended without a message, and the command told the user that
\* nothing was found.
C1_Witness ==
    /\ Only429
    /\ a_attempts = max_retries
    /\ a_pc = "done"
    /\ a_sent = <<"none_found">>

\* The loop stopped on its failure ceiling: retry_count reached max_retries
\* on a 429, or another failure came with retry_count at max_retries - 1.
CeilingReached == a_stop \in {"retries_429", "abort_status", "abort_error"}

\* C2 as stated: whenever the aggregation stops on the failure ceiling, the
\* command reports an error and presents no listing of the items collected
\* on the earlier pages.
C2_AsStated ==
    (a_pc = "done" /\ CeilingReached) =>
        /\ Aborted
        /\ \A i \in 1..Len(a_sent) : a_sent[i] # "listing"

\* C2, what the command does: after a page with items and max_retries
\* answers of 429 the listing of those items is the only message.
C2_Witness ==
    /\ a_pc = "done"
    /\ a_stop = "retries_429"
    /\ pages_retrieved > 0
    /\ all_items # <<>>
    /\ a_sent = <<"listing">>

\* C3 as stated: against an upstream that answers every request with a page,
\* whose next links lead to the end of the listing or back to a page already
\* visited, the command started with any combination of filters eventually
\* stops.
C3_AsStated == <>(a_pc = "done")

\* C3, where the loop does not stop: a filter is given, more pages were read
\* than the listing has, and the next request is issued.
C3_Witness ==
    /\ a_pc = "loop"
    /\ ~Unfiltered
    /\ pages_retrieved >= max_pages_to_fetch
    /\ pages_retrieved >= NPages
    /\ next_url # <<>>

\* The elements of a page the item loop handles: with the type test active,
\* those before the first one whose type is null.
RECURSIVE Handled(_, _)
Handled(list, testing) ==
    IF list = <<>> THEN <<>>
    ELSE IF testing /\ Head(list).present /\ Head(list).type = NullType
    THEN <<>>
    ELSE <<Head(list)>> \o Handled(Tail(list), testing)

\* The entries of all_items for the elements of `list`.
Entries(list) == [i \in 1..Len(list) |-> Normalize(list[i])]

\* The elements of `list` that are items.
Items(list) == SelectSeq(list, LAMBDA it : it.present)

\* The items of `list` whose type, upper-cased, is T.
OfType(list, T) ==
    SelectSeq(list, LAMBDA it : it.present /\ Upper(MaterialOf(it)) = T)

\* A page has just been read.
PageRead == a_pc = "loop" /\ a_last' \in {"page", "raised"}

\* C4 as stated: whenever a type filter is given, alone or with an owner
\* filter, every collected item's type, upper-cased, is the filter
\* upper-cased.
C4_AsStated ==
    a_item # EmptyStr =>
        \A i \in 1..Len(all_items) : Upper(all_items[i].material) = ItemUpper

\* C4, amended: with an owner filter and a type filter T, each page adds to
\* the collected list exactly its items whose type, upper-cased, is T
\* upper-cased, in order, up to an item whose type is null, and no item of
\* another type is ever collected; with a type filter alone each page adds
\* every one of its items.
C4_TypeFilter ==
    /\ [](filtered_by_item =>
            \A i \in 1..Len(all_items) :
                Upper(all_items[i].material) = ItemUpper)
    /\ [][PageRead =>
            all_items' = all_items \o
                IF filtered_by_item
                THEN Entries(OfType(Handled(a_page', TRUE), ItemUpper))
                ELSE Entries(Items(a_page'))]_vars

\* C4: both filters are given, and the page just read held an item of the
\* type in another case, which was collected, and one of another type, which
\* was not.
C4_Witness ==
    /\ filtered_by_item
    /\ a_last = "page"
    /\ a_page = <<ItemLower, ItemOther>>
    /\ all_items = <<Normalize(ItemLower)>>

\* A cycle has learned total_pages and has ended with its save.
CycleSaved == c_pc = "idle" /\ total_pages # <<>> /\ save_calls = 1

\* The step is the end of a cycle: lines 139-147.
CycleEnds == c_pc \in {"first", "sweep"} /\ c_pc' = "idle"
             /\ save_calls' = save_calls + 1

\* The step is the sweep's handling of a page.
PageHandled == c_pc = "sweep" /\ c_page' = c_page + 1

\* C11 as stated: during an update_cache cycle highest_page_checked never
\* decreases from one step to the next.
C11_AsStated == [][highest_page_checked' >= highest_page_checked]_vars

\* C11, amended: highest_page_checked changes only by the per-page advance
\* to max(highest, page + 1), which never lowers it, and by the end-of-cycle
\* rule, which sets it to total_pages and lowers it exactly when the stored
\* value exceeds the total_pages the cycle learned.
C11_Monotone ==
    [][highest_page_checked' # highest_page_checked =>
        \/ /\ PageHandled
           /\ highest_page_checked' = Max(highest_page_checked, c_page + 1)
           /\ highest_page_checked' > highest_page_checked
        \/ /\ CycleEnds
           /\ highest_page_checked > total_pages'[1]
           /\ highest_page_checked' = total_pages'[1]]_vars

\* C11: a cycle has ended with highest_page_checked below the value it began
\* with.
C11_Witness ==
    /\ CycleSaved
    /\ highest_page_checked < c_hpc0
    /\ highest_page_checked = total_pages[1]

\* C12 as stated: once a cycle has learned total_pages, highest_page_checked
\* is at most total_pages, in memory at every point and in the snapshot the
\* cycle's save_cache wrote.
C12_AsStated ==
    total_pages # <<>> =>
        /\ c_pc # "first" => highest_page_checked <= total_pages[1]
        /\ (CycleSaved /\ cache_file.kind = "snapshot") =>
                cache_file.highest_page_checked <= total_pages[1]

\* C12, what the cycle leaves: the rule has lowered the value in memory to
\* total_pages, and the snapshot saved just before holds the larger value.
C12_Witness ==
    /\ CycleSaved
    /\ highest_page_checked = total_pages[1]
    /\ cache_file.kind = "snapshot"
    /\ cache_file.highest_page_checked > total_pages[1]

\* The first cycle on an empty cache with highest_page_checked = 0 has ended
\* and learned a total_pages P with 1 <= P <= max_pages_per_update.
FirstCycleDone ==
    /\ CycleSaved
    /\ players0 = EmptyStore
    /\ c_hpc0 = 0
    /\ total_pages[1] \in 1..max_pages_per_update

\* C13: from an empty store with highest_page_checked = 0, against an
\* upstream of P pages, 1 <= P <= max_pages_per_update, with distinct ids
\* and every fetch succeeding, one cycle leaves exactly the ids of the P
\* pages in the store, each under its id, and highest_page_checked = P.
C13_OneCycle ==
    FirstCycleDone =>
        /\ DOMAIN players = 1..(total_pages[1] * PageSize)
        /\ \A k \in DOMAIN players : players[k].id = k
        /\ highest_page_checked = total_pages[1]

\* C13: such a cycle over max_pages_per_update pages has ended.
C13_Witness ==
    /\ FirstCycleDone
    /\ total_pages[1] = max_pages_per_update
    /\ Cardinality(DOMAIN players) = max_pages_per_update * PageSize

\* Every page of the upstream has been merged and the marker stands at
\* total_pages.
Converged ==
    /\ total_pages # <<>>
    /\ highest_page_checked = total_pages[1]
    /\ \A q \in 0..(total_pages[1] - 1) : q \in c_merged

\* C14: with a constant totalPages and every fetch succeeding, repeated
\* cycles from highest_page_checked = 0 eventually have merged every page
\* and reached highest_page_checked = totalPages, also when totalPages
\* exceeds max_pages_per_update.
C14_Converges == <>Converged

\* C14: the upstream has more pages than one cycle sweeps, and the cycles
\* have covered them all.
C14_Witness ==
    /\ Converged
    /\ c_pc = "idle"
    /\ total_pages[1] > max_pages_per_update

\* The step ends an update_cache cycle: the function returns.
CycleReturns == c_pc # "idle" /\ c_pc' = "idle"

\* C21 as stated: every update_cache cycle calls save_cache when it ends,
\* whichever of its page fetches failed.
C21_AsStated == [][CycleReturns => save_calls' = save_calls + 1]_vars

\* C21, what a cycle may leave: it learned total_pages, merged the players
\* of page 0 into the cache in memory, and returned without a save.
C21_Witness ==
    /\ c_pc = "idle"
    /\ total_pages # <<>>
    /\ start_page > 0
    /\ save_calls = 0
    /\ players # players0
    /\ cache_file = file0

\* The pages a, a + 1, ..., b - 1 in increasing order.
PageRange(a, b) == [i \in 1..(b - a) |-> a + i - 1]

\* The pages the claim assigns to the sweep of a cycle that began with
\* highest_page_checked = h and learned totalPages = T.
ClaimedSweep(h, T) ==
    LET s == IF h >= T THEN 0 ELSE h
        e == IF T <= s + max_pages_per_update THEN T
             ELSE s + max_pages_per_update
    IN  PageRange(s, e)

\* C22: in a cycle that learned totalPages = T with highest_page_checked = h
\* stored, the sweep requests the pages startPage, ...,
\* min(T, startPage + max_pages_per_update) - 1, each once and in increasing
\* order, with startPage = 0 if h >= T and h otherwise: while the sweep
\* runs the pages requested are the first of that range, and when the
\* cycle has saved they are the whole of it.
C22_SweepRange ==
    /\ c_pc \in {"newest", "sweep"} =>
          /\ Len(c_swept) <= Len(ClaimedSweep(c_hpc0, total_pages[1]))
          /\ \A i \in 1..Len(c_swept) :
                c_swept[i] = ClaimedSweep(c_hpc0, total_pages[1])[i]
    /\ CycleSaved => c_swept = ClaimedSweep(c_hpc0, total_pages[1])

\* C22: a cycle resumed at a page above 0 has swept max_pages_per_update
\* pages and stopped short of the last page.
C22_Witness ==
    /\ CycleSaved
    /\ c_hpc0 > 0
    /\ Len(c_swept) = max_pages_per_update
    /\ c_swept[1] = c_hpc0
    /\ c_swept[Len(c_swept)] < total_pages[1] - 1

\* Every player of page q is in the cache as the page lists it.
PageKept(q) ==
    \A i \in 1..PageSize :
        /\ PlayersPage(q)[i].id \in DOMAIN players
        /\ players[PlayersPage(q)[i].id] = PlayersPage(q)[i]

\* C23: a status other than 200 or an exception on a sweep page does not
\* end the cycle.  A cycle in which a sweep fetch failed stays in its sweep
\* until the range is exhausted; once it has returned it has requested
\* every page of the range and saved, and the players of every page merged
\* are in the cache.
C23_FailureContinues ==
    /\ c_failed # {} =>
          /\ c_pc \in {"sweep", "idle"}
          /\ c_pc = "sweep" => c_page <= c_stop
          /\ c_pc = "idle" =>
                /\ CycleSaved
                /\ c_swept = ClaimedSweep(c_hpc0, total_pages[1])
    /\ \A q \in c_merged : PageKept(q)

\* C23: the first page of a sweep failed, the next page was requested and
\* its players, new to the cache, were merged, and the cycle has saved.
C23_Witness ==
    /\ CycleSaved
    /\ Len(c_swept) >= 2
    /\ c_swept[1] \in c_failed
    /\ c_swept[2] \in c_merged
    /\ ~PageKept(c_swept[1])
    /\ PlayersPage(c_swept[2])[1].id \notin DOMAIN players0

\* C24: a cycle that ends with highest_page_checked at or beyond the
\* totalPages it learned leaves highest_page_checked = totalPages, and a
\* cycle that begins with highest_page_checked equal to the totalPages it
\* then learns starts its sweep at page 0.
C24_RestartAtZero ==
    /\ [][(CycleEnds /\ highest_page_checked >= total_pages'[1]) =>
              highest_page_checked' = total_pages'[1]]_vars
    /\ [](CycleSaved => highest_page_checked <= total_pages[1])
    /\ []((c_pc \in {"newest", "sweep"} /\ c_hpc0 = total_pages[1]) =>
              /\ start_page = 0
              /\ c_page = Len(c_swept)
              /\ c_swept # <<>> => c_swept[1] = 0)

\* C24: a cycle that began with highest_page_checked = totalPages, as a
\* full sweep leaves it, has requested page 0 as the first of its sweep.
C24_Witness ==
    /\ c_pc = "sweep"
    /\ total_pages[1] > 0
    /\ c_hpc0 = total_pages[1]
    /\ c_swept = <<0>>
    /\ cache_file.kind = "snapshot"
    /\ cache_file.highest_page_checked = total_pages[1]
    /\ cache_file.last_update = Timestamp

\* The loop is entered and no request has been answered: next_url is the
\* URL of the command's first request.
FirstRequest == a_pc = "loop" /\ a_last = "none"

\* C25: the first request of an aggregation goes to the owner endpoint
\* whenever an owner is given, with or without a type, else to the type
\* endpoint when a type is given, else to the unfiltered endpoint; it asks
\* for the first page.
C25_FirstEndpoint ==
    FirstRequest =>
        /\ next_url # <<>>
        /\ next_url[1].page = 0
        /\ a_buyer # EmptyStr => next_url[1].ep = "owner"
        /\ (a_buyer = EmptyStr /\ a_item # EmptyStr) =>
              next_url[1].ep = "type"
        /\ (a_buyer = EmptyStr /\ a_item = EmptyStr) =>
              next_url[1].ep = "all"

\* C25: a command given both an owner and a type is about to send its
\* first request, to the owner endpoint.
C25_Witness ==
    /\ FirstRequest
    /\ a_buyer # EmptyStr
    /\ a_item # EmptyStr
    /\ filtered_by_item
    /\ next_url = <<Url("owner", 0, 100)>>

\* The list under the endpoint's usual key and the list under the alias
\* key of the last body, <<>> for an absent key.
UsualList == IF a_cmd = "buyorders" THEN a_body.buy ELSE a_body.sales

AliasList == IF a_cmd = "buyorders" THEN a_body.sales ELSE a_body.buy

\* C26 as stated: on a 200 page the item list is taken from whichever of
\* the two embedded keys is non-empty; with the usual key present and
\* empty and the alias key holding items, the alias key's items are taken.
C26_AsStated ==
    (a_last = "page" /\ a_body.embedded) =>
        /\ (UsualList # <<>> /\ UsualList[1] # <<>>) => a_page = UsualList[1]
        /\ (UsualList \in {<<>>, << <<>> >>}
              /\ AliasList # <<>> /\ AliasList[1] # <<>>) =>
                 a_page = AliasList[1]

\* C26, what the page handling does: the usual key was present with an
\* empty list, the alias key held items, and no item was taken.
C26_Witness ==
    /\ a_last = "page"
    /\ a_body.embedded
    /\ UsualList = << <<>> >>
    /\ AliasList # <<>>
    /\ AliasList[1] # <<>>
    /\ a_page = <<>>
    /\ all_items = <<>>

\* The last answer was a 200 page whose body has no _embedded section or
\* an _embedded section with neither key.
NoItemsKey ==
    /\ a_last = "page"
    /\ \/ ~a_body.embedded
       \/ a_body.buy = <<>> /\ a_body.sales = <<>>

\* The last answer was a 200 response whose body is of an unexpected
\* shape: no JSON object.
UnexpectedShape == a_last = "garbled"

\* C27 as stated: a 200 page with neither embedded key, with no _embedded
\* section or of an unexpected shape contributes no item and is no error:
\* the command sends no error message and the loop goes on to the next
\* link or ends normally.
C27_AsStated ==
    (NoItemsKey \/ UnexpectedShape) =>
        /\ NoItemsKey => a_page = <<>>
        /\ a_stop \in {"none", "no_next", "page_ceiling", "item_ceiling"}
        /\ \A i \in 1..Len(a_sent) : a_sent[i] # "unexpected_error"

\* C27, what the command does with an unexpected shape: items were
\* collected from an earlier page, the next 200 body was no object, and
\* the command sent the error message and then went on below the loop.
C27_Witness ==
    /\ UnexpectedShape
    /\ a_pc = "done"
    /\ all_items # <<>>
    /\ a_stop = "unexpected"
    /\ Len(a_sent) = 2
    /\ a_sent[1] = "unexpected_error"

\* A page has been read and the loop is about to follow its next link.
FollowsNext == a_pc = "loop" /\ a_last = "page" /\ next_url # <<>>

\* C28 as stated: every next link the aggregator follows is requested with
\* the size parameter 200, whether the link carried another size or none,
\* in /buyorders and /sales alike.
C28_AsStated == FollowsNext => next_url[1].size = 200

\* C28, what /buyorders does: the next link carried no size parameter and
\* is about to be requested without one.
C28_Witness ==
    /\ FollowsNext
    /\ a_cmd = "buyorders"
    /\ pages_retrieved = 1
    /\ next_url[1].size = NoSize

\* C29: a 200 page resets the retry counter to 0, and the loop stops on
\* its failure ceiling only with max_retries or more failed requests for
\* the same URL since the last page read; failures with pages read between
\* them do not add up, however many they are.
C29_RetryReset ==
    /\ a_last = "page" => (retry_count = 0 /\ a_attempts = 0)
    /\ retry_count <= a_attempts
    /\ CeilingReached => a_attempts >= max_retries

\* C29: max_retries requests of the command have failed, pages were read
\* between them, the last answer was a page, and the loop goes on.
C29_Witness ==
    /\ a_pc = "loop"
    /\ next_url # <<>>
    /\ a_last = "page"
    /\ retry_count = 0
    /\ pages_retrieved >= 2
    /\ a_failures >= max_retries

\* The number of positions of `list` that hold x.
Count(list, x) == Cardinality({i \in 1..Len(list) : list[i] = x})

\* `a` holds the elements of `b`, each as often as b does.
IsPermutation(a, b) ==
    /\ Len(a) = Len(b)
    /\ \A i \in 1..Len(b) : Count(a, b[i]) = Count(b, b[i])

\* C15: under any sequence of sort selections the collected list all_items
\* is not changed, the displayed list is a permutation of it, and with the
\* default order selected the displayed list is all_items in its order.
C15_SortNonDestructive ==
    /\ [][all_items' = all_items]_vars
    /\ [](v_pc = "open" =>
            /\ IsPermutation(sorted_items, all_items)
            /\ sort_mode = "default" => sorted_items = all_items)

\* C15: default order is selected again after a sort by price that changed
\* the order, and the view is back on the original order.
C15_Witness ==
    /\ v_pc = "open"
    /\ sort_mode = "default"
    /\ sorted_items = all_items
    /\ SortItems(all_items, "price_low_high") # all_items
    /\ SortItems(all_items, "price_high_low") # all_items
    /\ current_page = 0
    /\ num_pages > 1

\* The crawl cycle, the lookup and the resolution have all ended.
RaceDone ==
    /\ c_pc = "idle"
    /\ total_pages # <<>>
    /\ l_pc = "done"
    /\ b_pc = "done"

\* The records the three wrote under the id k: the crawler the record of
\* the listing when it merged k's page, the lookup the body it accepted, the
\* resolution the body it accepted for k.
Writes(k) ==
    {rec \in {PlayersPage(q)[i] : q \in c_merged, i \in 1..PageSize} :
        rec.id = k}
    \cup {l_resp[i].body : i \in {i \in 1..Len(l_resp) :
            LookupAccepts(l_resp[i]) /\ l_resp[i].body.id = k}}
    \cup {Player(k, seller_names[j], 0) :
            j \in {j \in DOMAIN seller_names : j = k /\ j \notin b_hits}}

\* The ids any of the three wrote.
Written == {k \in 1..(MaxTotal * PageSize) : Writes(k) # {}}

WellFormed(file) ==
    /\ file.kind \in {"snapshot", "object"}
    /\ file.players \notin {NullPlayers, ListPlayers}
    /\ file.highest_page_checked # NullPage

\* C17 as stated: load_cache never raises, and when the file is missing,
\* unreadable or anything but a well-formed snapshot, the cache afterwards
\* is empty: players = {}, last_update = None, highest_page_checked = 0.
C17_AsStated ==
    d_pc = "up" =>
        /\ ~d_raised
        /\ ~WellFormed(cache_file) =>
              /\ players = EmptyStore
              /\ last_update = 0
              /\ highest_page_checked = 0

\* C17, what load_cache leaves: the file's object held a list where the
\* players object belongs and null for the page number, and both are in the
\* cache.
C17_Witness ==
    /\ d_pc = "up"
    /\ ~d_raised
    /\ cache_file.kind = "object"
    /\ players = ListPlayers
    /\ highest_page_checked = NullPage

\* C18 as stated: whatever /link commands ran, overlapping or not, a
\* Discord identity that has a link keeps the record id it was first linked
\* to: its user_links entry is never overwritten or removed.
C18_AsStated ==
    \A u \in DOMAIN k_first :
        /\ u \in DOMAIN user_links
        /\ user_links[u] = k_first[u]

\* C18, the overlap: a /link command of a user linked by now has just
\* passed its checks and replaced the user's first record id by another.
C18_Witness ==
    /\ k_sent = "linked"
    /\ \E u \in DOMAIN k_first :
          /\ u \in DOMAIN user_links
          /\ user_links[u] # k_first[u]
          /\ user_links[u] \in DOMAIN players
          /\ players[user_links[u]].discordId = u

\* The command was given neither a type nor an owner.
NoFilter == a_item = EmptyStr /\ a_buyer = EmptyStr

\* One of the two ceilings is reached: the page counter or the number of
\* items collected.
AtCeiling ==
    \/ pages_retrieved >= max_pages_to_fetch
    \/ Len(all_items) >= max_items

\* C19: the page ceiling and the item ceiling end the loop only of a
\* command with neither filter.  A filtered command leaves the loop only
\* for lack of a next link or on a failure, and goes on past both
\* ceilings; an unfiltered one never holds max_items items while its loop
\* runs, and once a ceiling is reached the only request it still makes is
\* the repeat of a URL whose 200 answer could not be read, never the next
\* page.
C19_CeilingsOnlyUnfiltered ==
    /\ a_stop \in {"page_ceiling", "item_ceiling"} => NoFilter
    /\ (NoFilter /\ a_pc = "loop") => Len(all_items) < max_items
    /\ (NoFilter /\ a_pc = "loop" /\ AtCeiling) =>
          /\ retry_count > 0
          /\ a_last # "page"
    /\ (~NoFilter /\ a_pc \in {"after", "resolve", "done"}) =>
          a_stop \in {"none", "no_next", "retries_429", "abort_status",
                      "abort_error", "unexpected"}

\* C19, the filtered run: a page was read, both ceilings are reached, and
\* the loop is about to request the next page.
C19_Witness ==
    /\ ~NoFilter
    /\ a_pc = "loop"
    /\ a_last = "page"
    /\ retry_count = 0
    /\ next_url # <<>>
    /\ pages_retrieved >= max_pages_to_fetch
    /\ Len(all_items) >= max_items

\* The loop was left after a run of 429 answers to its last URL.
RunOf429 == a_pc \in {"after", "resolve", "done"} /\ a_last = "429" /\ a_all429

\* The loop was left after a run of answers to its last URL with statuses
\* that are neither 200 nor 429.
RunOfBadStatus ==
    /\ a_pc \in {"after", "resolve", "done"}
    /\ a_last = "bad_status"
    /\ a_allbad

\* C20 as stated: a run of non-429 failure statuses and a run of 429
\* answers are handled alike: after either, the URL was requested the same
\* number of times and the command ends Aborted, with an error message in
\* place of a listing.
C20_AsStated ==
    (RunOf429 \/ RunOfBadStatus) =>
        /\ a_attempts = max_retries
        /\ a_pc = "done" =>
              /\ Aborted
              /\ a_sent[Len(a_sent)] = "api_failed"

\* C20, the non-429 side: max_retries answers with a failure status, and
\* the command has returned from inside the loop with the status message.
C20_Witness ==
    /\ RunOfBadStatus
    /\ a_pc = "done"
    /\ a_attempts = max_retries
    /\ a_stop = "abort_status"
    /\ a_sent[Len(a_sent)] = "api_failed"

\* The answer r to a findByName request is a success: status 200 and a JSON
\* object that holds an id.
GoodAnswer(r) == r.kind = "json" /\ r.status = 200 /\ r.body.id # NoId

\* Some cached player's name equals `name` case-insensitively.
NameCached(store, name) ==
    \E k \in DOMAIN store :
        /\ HasUsableName(store[k])
        /\ Lower(store[k].name) = Lower(name)

\* C5 as stated: whenever no cached name matches the query, the lookup issues
\* exactly one findByName request, and on a 200 answer holding an id the
\* record is stored under its id, save_cache is called and the record is
\* returned.
C5_AsStated ==
    (l_pc = "done" /\ ~NameCached(players0, l_name)) =>
        /\ l_requests = 1
        /\ Len(l_resp) = 1
        /\ GoodAnswer(l_resp[1]) =>
              /\ l_resp[1].body.id \in DOMAIN players
              /\ players[l_resp[1].body.id] = l_resp[1].body
              /\ save_calls = 1
              /\ l_result = <<l_resp[1].body>>

\* C5 amended: the same for a non-empty name; the empty name is rejected before
\* the cache is scanned and no request is issued for it.
C5_LookupFallback ==
    /\ (l_pc \in {"await", "done"} /\ l_name # EmptyStr
            /\ ~NameCached(players0, l_name)) => l_requests = 1
    /\ (l_pc = "done" /\ l_name # EmptyStr /\ ~NameCached(players0, l_name)) =>
          /\ Len(l_resp) = 1
          /\ GoodAnswer(l_resp[1]) =>
                /\ l_resp[1].body.id \in DOMAIN players
                /\ players[l_resp[1].body.id] = l_resp[1].body
                /\ save_calls = 1
                /\ l_result = <<l_resp[1].body>>
    /\ (l_pc = "done" /\ l_name = EmptyStr) =>
          l_requests = 0 /\ l_result = <<>>

\* The spec's instance of C5: the cache is empty, the remote search answers
\* {id: 1, name: Foo}, and the lookup of "foo" returns that record and has
\* stored it under id 1 and saved.
C5_Witness ==
    /\ l_pc = "done"
    /\ players0 = EmptyStore
    /\ l_name = foo
    /\ l_result = <<Player(1, Foo, 0)>>
    /\ players = Put(EmptyStore, 1, Player(1, Foo, 0))
    /\ save_calls = 1
    /\ cache_file.kind = "snapshot"
    /\ cache_file.players = players

\* A second C5 case: the stored record replaces a cached one with the same id.
C5_WitnessOverwrite ==
    /\ l_pc = "done"
    /\ Len(l_resp) = 1
    /\ GoodAnswer(l_resp[1])
    /\ l_resp[1].body.id \in DOMAIN players0
    /\ players0[l_resp[1].body.id] # l_resp[1].body

\* C6: for every name and every failing answer (a status other than 200, a
\* body that cannot be parsed, a body that is no object or holds no id, a
\* network error) the lookup returns None, raises nothing, leaves the cache
\* as it was and does not save.
C6_LookupFailure ==
    (/\ l_pc = "done"
     /\ \/ l_name = EmptyStr
        \/ Len(l_resp) = 1 /\ ~GoodAnswer(l_resp[1])) =>
        /\ l_result = <<>>
        /\ ~l_raised
        /\ players = players0
        /\ save_calls = 0
        /\ cache_file = file0

\* A C6 case: a non-200 answer that carries a well-formed player object, on a
\* cache that already holds a record.
C6_Witness ==
    /\ l_pc = "done"
    /\ Len(l_resp) = 1
    /\ l_resp[1].kind = "json"
    /\ l_resp[1].status = 404
    /\ l_resp[1].body.id # NoId
    /\ players # EmptyStore

\* C7: when a cached record's name equals the queried name case-insensitively,
\* the lookup returns a record with that name, issues no request and leaves
\* the cache and its file as they were.
C7_CacheHit ==
    (l_pc \in {"await", "done"} /\ NameCached(players0, l_name)) =>
        /\ l_pc = "done"
        /\ Len(l_result) = 1
        /\ Lower(l_result[1].name) = Lower(l_name)
        /\ \E k \in DOMAIN players0 : players0[k] = l_result[1]
        /\ l_requests = 0
        /\ players = players0
        /\ cache_file = file0
        /\ save_calls = 0

\* A C7 case: "foo" is looked up and the cache holds "Foo".
C7_Witness ==
    /\ l_pc = "done"
    /\ l_name = foo
    /\ l_requests = 0
    /\ Len(l_result) = 1
    /\ l_result[1].name = Foo

\* C8: one seller-name resolution issues at most 5 by-id requests, failed ones
\* included, and its result maps at most the cache hits plus 5 ids.
C8_BatchBound ==
    /\ Len(b_requested) <= 5
    /\ Len(b_requested) + Len(b_todo) <= 5
    /\ Cardinality(DOMAIN seller_names) <= Cardinality(b_hits) + 5

\* A C8 case: more than 5 ids missed the cache, 5 requests were issued, one
\* of them failed, and the resolution is over.
C8_Witness ==
    /\ b_pc = "done"
    /\ Cardinality(b_ids0 \ b_hits) > 5
    /\ Len(b_requested) = 5
    /\ Len(b_todo) = 0
    /\ Cardinality(DOMAIN seller_names) = Cardinality(b_hits) + 4

\* C9: an id whose record is cached with a name is never requested from the
\* API and is mapped to the cached name.
C9_BatchCacheHit ==
    b_pc # "idle" =>
        \A i \in b_ids0 :
            (i \in DOMAIN players0 /\ players0[i].name # NoName) =>
                /\ \A k \in DOMAIN b_requested : b_requested[k] # i
                /\ \A k \in DOMAIN b_todo : b_todo[k] # i
                /\ i \in DOMAIN seller_names
                /\ seller_names[i] = players0[i].name

\* A C9 case: the resolution is over, some ids were cached with a name and
\* others were requested.
C9_Witness ==
    /\ b_pc = "done"
    /\ \E i \in b_ids0 : i \in DOMAIN players0 /\ players0[i].name # NoName
    /\ Len(b_requested) > 0

\* C10: merging a page a second time leaves the cache as the first merge
\* left it.
C10_MergeIdempotent ==
    m_pc = "twice" => players = m_once

\* A C10 case: the page was merged twice, it changed a cached record and
\* added one, and it names one id twice.
C10_Witness ==
    /\ m_pc = "twice"
    /\ Len(m_page) = 3
    /\ m_page[1].id = m_page[3].id
    /\ m_page[1] # m_page[3]
    /\ m_page[1].id # NoId
    /\ DOMAIN players # {}
    /\ \E k \in DOMAIN players : k \notin {m_page[i].id : i \in 1..3}

\* C30 as stated: when a command with neither filter has left its loop,
\* the list it collected holds at most max_items items.
C30_AsStated ==
    (NoFilter /\ a_pc \in {"after", "resolve", "done"}) =>
        Len(all_items) <= max_items

\* C30: a command with neither filter left its loop on the item ceiling,
\* which is tested once the whole page is appended, with more than
\* max_items items collected.
C30_Witness ==
    /\ NoFilter
    /\ a_pc \in {"after", "resolve", "done"}
    /\ a_stop = "item_ceiling"
    /\ a_last = "page"
    /\ Len(all_items) > max_items

\* The record under key i is as it was when the resolution began.
Untouched(i) ==
    /\ (i \in DOMAIN players) = (i \in DOMAIN players0)
    /\ i \in DOMAIN players0 => players[i] = players0[i]

\* The id the step's by-id request was issued for.
JustRequested == b_requested'[Len(b_requested')]

\* C31: an id the resolution resolves remotely is stored under that id with
\* the name it was mapped to, and save_cache is called with the store that
\* holds it, in the step that received the answer, so before the next
\* request; an id that was requested without an accepted answer (a failed
\* request, a status other than 200, an object without a "name" key) and an
\* id past the limit are not in the result map and their key of the store
\* is as the resolution found it.
C31_ResolveThenPersist ==
    /\ [](b_pc # "idle" =>
            \A i \in b_ids0 \ b_hits :
                IF i \in DOMAIN seller_names
                THEN /\ \E k \in DOMAIN b_requested : b_requested[k] = i
                     /\ seller_names[i] # NoName
                     /\ i \in DOMAIN players
                     /\ players[i].name = seller_names[i]
                ELSE Untouched(i))
    /\ [](b_pc = "done" =>
            /\ Len(b_requested) = Min(5, Cardinality(b_ids0 \ b_hits))
            /\ \A i \in b_ids0 \ b_hits :
                  (\A k \in DOMAIN b_requested : b_requested[k] # i) =>
                      i \notin DOMAIN seller_names)
    /\ [][Len(b_requested') > Len(b_requested) =>
            IF JustRequested \in DOMAIN seller_names'
            THEN /\ save_calls' = save_calls + 1
                 /\ \E w \in WriteOutcomes :
                       cache_file' = SaveCache(cache_file, players',
                                               last_update,
                                               highest_page_checked, w)
            ELSE UNCHANGED <<players, cache_file, save_calls>>]_vars

\* C31: the resolution is over; more ids missed the cache than the limit
\* allows, one of the requested ids was resolved and is in the file the
\* last save wrote, another was requested without an accepted answer.
C31_Witness ==
    /\ b_pc = "done"
    /\ Cardinality(b_ids0 \ b_hits) > 5
    /\ save_calls >= 1
    /\ cache_file = Snapshot(players, last_update, highest_page_checked)
    /\ \E i \in b_ids0 \ b_hits :
          /\ i \in DOMAIN seller_names
          /\ i \notin DOMAIN players0
    /\ \E i \in b_ids0 \ b_hits :
          /\ \E k \in DOMAIN b_requested : b_requested[k] = i
          /\ i \notin DOMAIN seller_names

\* What a fresh process loads from the cache file.
Restarted == LoadCache(cache_file, EmptyCache)

\* C32 as stated: after a cycle whose save wrote the file, a restart loads
\* the players and the highest_page_checked that the cycle left in memory
\* when it returned.
C32_AsStated ==
    (CycleSaved /\ cache_file.kind = "snapshot") =>
        /\ Restarted.players = players
        /\ Restarted.highest_page_checked = highest_page_checked

\* C32: a cycle merged players and saved, then lowered
\* highest_page_checked to total_pages; a restart loads the players and
\* the larger value the file holds.
C32_Witness ==
    /\ CycleSaved
    /\ cache_file.kind = "snapshot"
    /\ players # EmptyStore
    /\ Restarted.players = players
    /\ highest_page_checked = total_pages[1]
    /\ Restarted.highest_page_checked > highest_page_checked

\* C33: no step of a crawl cycle, a name lookup, a linked-player fetch or
\* a seller-name resolution removes a key from the cache: the keys after
\* the step include the keys before it.
C33_StoreGrows == [][DOMAIN players \subseteq DOMAIN players']_vars

\* C33: a crawl cycle has merged pages and ended, a lookup and a
\* seller-name resolution have each stored the record their request
\* returned, a /link command has had its answer, and a record the crawler
\* stored has been overwritten by another writer, the others still there.
C33_Witness ==
    /\ c_pc = "idle"
    /\ Cardinality(c_merged) >= 2
    /\ l_resp # <<>>
    /\ LookupAccepts(l_resp[1])
    /\ b_pc = "done"
    /\ \E i \in DOMAIN seller_names : i \notin b_hits
    /\ k_sent # "none"
    /\ k_waiting = {}
    /\ Cardinality(DOMAIN players) > PageSize
    /\ \E k \in DOMAIN players : players[k].name # Bob

\* C34 as stated: every key of the cache maps to a record whose "id" is
\* the key.
C34_AsStated == \A k \in DOMAIN players : players[k].id = k

\* C34: the seller-name resolution stored, under the id it had requested,
\* an object answered with status 200 that has a "name" and no "id".
C34_Witness ==
    /\ b_pc = "done"
    /\ \E k \in DOMAIN players :
          /\ k \notin DOMAIN players0
          /\ \E i \in DOMAIN b_requested : b_requested[i] = k
          /\ players[k].id = NoId
          /\ players[k].name = Foo
          /\ k \in DOMAIN seller_names

\* The cycle's first request was answered with another status than 200 or
\* with a body without page information.
NoPageInfo == c_answer \in {"status", "nopage"}

\* C35: when the first request of a cycle is answered with a status other
\* than 200 or with a body that has no page information, the cycle returns
\* in that step, with no further request and no save, and leaves players,
\* highest_page_checked, last_update and the file as they were.
C35_FirstFailureEnds ==
    /\ [][(c_pc = "first" /\ NoPageInfo') =>
            /\ c_pc' = "idle"
            /\ UNCHANGED <<players, highest_page_checked, last_update,
                           cache_file, save_calls>>]_vars
    /\ [](NoPageInfo =>
            /\ c_pc = "idle"
            /\ c_swept = <<>>
            /\ save_calls = 0
            /\ players = players0
            /\ cache_file = file0
            /\ highest_page_checked = c_hpc0)

\* C35: an earlier cycle filled the cache and saved; the next one had a
\* status other than 200 for its first request and has returned.
C35_Witness ==
    /\ c_pc = "idle"
    /\ c_answer = "status"
    /\ players # EmptyStore
    /\ highest_page_checked > 0
    /\ last_update = Timestamp
    /\ total_pages # <<>>

\* C36 as stated: from an empty store with highest_page_checked = 0 and a
\* constant totalPages, every page below highest_page_checked has been
\* fetched and merged in some cycle.
C36_AsStated ==
    \A q \in 0..(highest_page_checked - 1) : q \in c_merged

\* C36: a sweep's fetch of a page failed, a later page of the same sweep
\* was merged and moved highest_page_checked past the failed page, and
\* the cycle has ended with the failed page never merged.
C36_Witness ==
    /\ CycleSaved
    /\ \E q \in c_failed :
          /\ q < highest_page_checked
          /\ q \notin c_merged
          /\ highest_page_checked - 1 \in c_merged

\* The cycle began with every page checked, of a listing longer than a
\* sweep.
AfterFullSweep ==
    /\ c_pc # "idle"
    /\ total_pages # <<>>
    /\ c_hpc0 = total_pages[1]
    /\ total_pages[1] > max_pages_per_update

\* C37: with a constant totalPages above max_pages_per_update, a cycle
\* that begins with highest_page_checked = totalPages requests the pages
\* 0, 1, ... in order and none from max_pages_per_update on, has requested
\* all of 0..max_pages_per_update-1 when it ends its sweep, and leaves
\* highest_page_checked = totalPages, so the same holds of each later
\* cycle.
C37_SteadySweep ==
    /\ [](AfterFullSweep =>
            /\ highest_page_checked = total_pages[1]
            /\ Len(c_swept) <= max_pages_per_update
            /\ \A i \in DOMAIN c_swept : c_swept[i] = i - 1
            /\ c_pc \in {"newest", "sweep"} => start_page = 0)
    /\ [][(AfterFullSweep /\ c_pc = "sweep" /\ c_pc' = "idle") =>
            /\ Len(c_swept) = max_pages_per_update
            /\ highest_page_checked' = total_pages[1]]_vars

\* C37: the second cycle after a full sweep has requested the pages
\* 0..max_pages_per_update-1, the fetch of one of them having failed, and
\* is about to end.
C37_Witness ==
    /\ AfterFullSweep
    /\ c_pc = "sweep"
    /\ c_hpc0 = highest_page_checked
    /\ players0 = players
    /\ Cardinality(DOMAIN players) = total_pages[1] * PageSize
    /\ Len(c_swept) = max_pages_per_update
    /\ c_failed # {}

\* The step gives user u a link it did not have before the step.
LinkCreated(u) ==
    /\ u \in DOMAIN user_links'
    /\ u \notin DOMAIN user_links \/ user_links'[u] # user_links[u]

\* C38: a step creates a link u -> p only as the last step of a /link
\* command, which answers "linked", and only when the player record the
\* command resolved, which the cache holds, has the id p and a discordId
\* that is the string of u's id; a record without a discordId, with
\* another user's or with the id as a number is never linked.
C38_LinkOnlyOwn ==
    [][\A u \in Users :
          LinkCreated(u) =>
              /\ k_sent' = "linked"
              /\ \A v \in Users \ {u} : ~LinkCreated(v)
              /\ \E k \in DOMAIN players' :
                    /\ players'[k].id = user_links'[u]
                    /\ players'[k].discordId = u]_vars

\* C38: a user without a link has been linked by a /link command to the
\* record that carries the user's id, and the cache also holds a record
\* that carries no discordId.
C38_Witness ==
    /\ k_sent = "linked"
    /\ \E u \in DOMAIN user_links :
          /\ user_links[u] \in DOMAIN players
          /\ players[user_links[u]].discordId = u
          /\ k_first[u] = user_links[u]
    /\ \E k \in DOMAIN players : players[k].discordId = 0
    /\ links_file = <<user_links>>

\* C39: while the view of a non-empty listing is open, the page displayed
\* is one of 0..num_pages-1, num_pages being the pages the listing fills,
\* whatever buttons were pressed and modes selected; and each selection of
\* a sort mode puts the view on page 0.
C39_PageInRange ==
    /\ [](v_pc = "open" =>
            /\ num_pages >= 1
            /\ num_pages * items_per_page >= Len(all_items)
            /\ (num_pages - 1) * items_per_page < Len(all_items)
            /\ current_page >= 0
            /\ current_page <= num_pages - 1)
    /\ [][(v_pc = "open" /\ (sort_mode' # sort_mode
                               \/ sorted_items' # sorted_items)) =>
            current_page' = 0]_vars

\* C39: the view of a listing of several pages stands on its last page,
\* in a sort order selected from the dropdown.
C39_Witness ==
    /\ v_pc = "open"
    /\ sort_mode = "price_high_low"
    /\ sorted_items # all_items
    /\ num_pages >= 2
    /\ current_page = num_pages - 1

====
